---- MODULE Spec2Model ----
(***************************************************************************)
(* MathImage (src/src/main.rs): the configuration/profile store behind one *)
(* tokio Mutex, its transactional update with write-temp-then-rename       *)
(* persistence, the hotkey-driven capture+analyze run and the retrying     *)
(* analysis request.                                                       *)
(*                                                                         *)
(* Tasks are the detached async tasks / command invocations of the tokio   *)
(* runtime.  A critical section that contains no await is one atomic step  *)
(* that needs the lock free; every await on the file system, the network   *)
(* or an external collaborator is a step of its own.                       *)
(***************************************************************************)
EXTENDS Integers, Sequences, FiniteSets, TLC

VARIABLES
    mem,      \* AppState.config: the in-memory Config behind the Mutex
    lock,     \* holder of the Config Mutex: <<>> when free, <<t>> when task t holds it
    disk,     \* file at the canonical path ~/.mathimage/config.json
    tmpf,     \* file at the temporary path ~/.mathimage/config.tmp
    nextId,   \* stands for uuid::Uuid::new_v4(): the next unused profile id
    pc,       \* per task: the await point the task is at
    op,       \* per task: the command it runs, with its arguments
    loc,      \* per task: its local variables
    pre,      \* per task: mem, disk, tmpf and shortcuts as they were when its command began
    started,  \* number of commands begun so far
    opLimit,  \* number of commands the behaviour may begin
    anyErr,   \* some transactional update has returned Err
    cache,    \* file at ~/.mathimage/models.json
    loaded_models, \* AppState.loaded_models
    shortcuts \* global_shortcut plugin: the shortcut registered for each handler

vars == <<mem, lock, disk, tmpf, nextId, pc, op, loc, pre, started, opLimit, anyErr,
          cache, loaded_models, shortcuts>>

-----------------------------------------------------------------------------
(* Bounds *)

MaxOps == 2
MaxSoloOps == 3
MaxIds == 3
\* the lines of a response body and the chunks it arrives in
MaxLines == 2
MaxChunks == 2

Tasks == {1, 2}

-----------------------------------------------------------------------------
(* Data model: Option<T> is a sequence of length 0 (None) or 1 (Some) *)

None == <<>>
Some(x) == <<x>>
IsSome(o) == o # <<>>
Unwrap(o) == o[1]

DefaultName == "default"
DefaultBaseUrl == "http://210.126.8.197:11434/v1"
DefaultPrompt == "default_prompt"

Predefined(text) == [tag |-> "Predefined", text |-> text]
UserInput == [tag |-> "UserInput", text |-> ""]

NewProfile(id, name) ==
    [ id          |-> id,
      name        |-> name,
      api_config  |-> [base_url |-> DefaultBaseUrl, api_key |-> "", model |-> ""],
      prompt_mode |-> Predefined(DefaultPrompt),
      output_mode |-> "Clipboard" ]

DefaultConfig(id) ==
    [ global_hotkey         |-> "cmd+shift+m",
      switch_profile_hotkey |-> "cmd+shift+p",
      profiles              |-> <<NewProfile(id, DefaultName)>>,
      active_profile_id     |-> Some(id),
      sound_enabled         |-> TRUE ]

\* iter().position(|p| p.id == id): index of the first profile with that id, 0 if none
Position(profiles, id) ==
    IF \E i \in 1..Len(profiles) : profiles[i].id = id
    THEN CHOOSE i \in 1..Len(profiles) :
             /\ profiles[i].id = id
             /\ \A j \in 1..(i - 1) : profiles[j].id # id
    ELSE 0

\* Vec::remove(index)
RemoveAt(s, i) == SubSeq(s, 1, i - 1) \o SubSeq(s, i + 1, Len(s))

-----------------------------------------------------------------------------
(* Files.  A file holds a complete serialized Config, or an incomplete     *)
(* document (created or truncated and not yet fully written), or is absent *)

Absent == [kind |-> "absent"]
Partial == [kind |-> "partial"]
\* serde_json::to_string_pretty(config)
Serialize(cfg) == [kind |-> "json", cfg |-> cfg]

-----------------------------------------------------------------------------
(* The mutators handed to update_and_save_config.  Each works on           *)
(* &mut Config in place: it returns whether it returned Ok and the Config   *)
(* as it left it, which is what stays in memory in either case.            *)

\* the Result of a mutator and the Config it leaves; err is the Err(String)
Ok(cfg) == [ok |-> TRUE, cfg |-> cfg, err |-> ""]
Err(cfg, e) == [ok |-> FALSE, cfg |-> cfg, err |-> e]

\* ProfileConfigUpdate: every field an Option
NoUpdate ==
    [ name |-> None, base_url |-> None, api_key |-> None, model |-> None,
      prompt_mode |-> None, output_mode |-> None ]

\* create_new_profile with the push done before the duplicate check
CreateMutator_PushFirst(cfg, name, id) ==
    LET pushed == [cfg EXCEPT !.profiles = Append(@, NewProfile(id, name)),
                              !.active_profile_id = Some(id)] IN
    IF \E i \in 1..Len(cfg.profiles) : cfg.profiles[i].name = name
    THEN Err(pushed, "NameExists")
    ELSE Ok(pushed)

\* create_new_profile that inserts the new profile at the front
CreateMutator_Prepend(cfg, name, id) ==
    IF \E i \in 1..Len(cfg.profiles) : cfg.profiles[i].name = name
    THEN Err(cfg, "NameExists")
    ELSE Ok([cfg EXCEPT !.profiles = <<NewProfile(id, name)>> \o @,
                        !.active_profile_id = Some(id)])

\* create_new_profile without the duplicate check
CreateMutator_NoCheck(cfg, name, id) ==
    Ok([cfg EXCEPT !.profiles = Append(@, NewProfile(id, name)),
                   !.active_profile_id = Some(id)])

\* the closure of create_new_profile
CreateMutator(cfg, name, id) ==
    IF \E i \in 1..Len(cfg.profiles) : cfg.profiles[i].name = name
    THEN Err(cfg, "NameExists")
    ELSE Ok([cfg EXCEPT !.profiles = Append(@, NewProfile(id, name)),
                        !.active_profile_id = Some(id)])

\* "if let Some(x) = updates.f { profile.f = x }"
Patch(old, opt) == IF IsSome(opt) THEN Unwrap(opt) ELSE old

\* an update that writes every field, the omitted ones as empty
ApplyProfileUpdate_WriteAll(p, u) ==
    [ id          |-> p.id,
      name        |-> Patch("", u.name),
      api_config  |-> [ base_url |-> Patch("", u.base_url),
                        api_key  |-> Patch("", u.api_key),
                        model    |-> Patch("", u.model) ],
      prompt_mode |-> Patch(p.prompt_mode, u.prompt_mode),
      output_mode |-> Patch(p.output_mode, u.output_mode) ]

ApplyProfileUpdate(p, u) ==
    [ id          |-> p.id,
      name        |-> Patch(p.name, u.name),
      api_config  |-> [ base_url |-> Patch(p.api_config.base_url, u.base_url),
                        api_key  |-> Patch(p.api_config.api_key, u.api_key),
                        model    |-> Patch(p.api_config.model, u.model) ],
      prompt_mode |-> Patch(p.prompt_mode, u.prompt_mode),
      output_mode |-> Patch(p.output_mode, u.output_mode) ]

\* the closure of update_active_profile_config
UpdateActiveMutator(cfg, u) ==
    IF ~IsSome(cfg.active_profile_id)
    THEN Err(cfg, "NoActiveProfile")
    ELSE LET i == Position(cfg.profiles, Unwrap(cfg.active_profile_id)) IN
         IF i = 0
         THEN Err(cfg, "ActiveProfileNotFound")
         ELSE Ok([cfg EXCEPT !.profiles[i] = ApplyProfileUpdate(@, u)])

\* set_active_profile without the existence check
SetActiveMutator_NoCheck(cfg, id) == Ok([cfg EXCEPT !.active_profile_id = Some(id)])

\* the closure of set_active_profile
SetActiveMutator(cfg, id) ==
    IF Position(cfg.profiles, id) = 0
    THEN Err(cfg, "NotFound")
    ELSE Ok([cfg EXCEPT !.active_profile_id = Some(id)])

\* delete_profile that looks the id up before it counts the profiles
DeleteMutator_FindFirst(cfg, id) ==
    LET i == Position(cfg.profiles, id) IN
    IF i = 0
    THEN Err(cfg, "NotFound")
    ELSE IF Len(cfg.profiles) <= 1
    THEN Err(cfg, "LastProfile")
    ELSE LET rest == RemoveAt(cfg.profiles, i) IN
         Ok([cfg EXCEPT
               !.profiles = rest,
               !.active_profile_id =
                   IF cfg.active_profile_id = Some(id)
                   THEN (IF Len(rest) = 0 THEN None ELSE Some(rest[1].id))
                   ELSE @])

\* delete_profile that moves the active profile to the last one
DeleteMutator_ActiveToLast(cfg, id) ==
    IF Len(cfg.profiles) <= 1
    THEN Err(cfg, "LastProfile")
    ELSE LET i == Position(cfg.profiles, id) IN
         IF i = 0
         THEN Err(cfg, "NotFound")
         ELSE LET rest == RemoveAt(cfg.profiles, i) IN
              Ok([cfg EXCEPT
                    !.profiles = rest,
                    !.active_profile_id =
                        IF cfg.active_profile_id = Some(id)
                        THEN (IF Len(rest) = 0 THEN None ELSE Some(rest[Len(rest)].id))
                        ELSE @])

\* delete_profile without the move of the active profile
DeleteMutator_KeepActive(cfg, id) ==
    IF Len(cfg.profiles) <= 1
    THEN Err(cfg, "LastProfile")
    ELSE LET i == Position(cfg.profiles, id) IN
         IF i = 0
         THEN Err(cfg, "NotFound")
         ELSE Ok([cfg EXCEPT !.profiles = RemoveAt(cfg.profiles, i)])

\* the closure of delete_profile
DeleteMutator(cfg, id) ==
    IF Len(cfg.profiles) <= 1
    THEN Err(cfg, "LastProfile")
    ELSE LET i == Position(cfg.profiles, id) IN
         IF i = 0
         THEN Err(cfg, "NotFound")
         ELSE LET rest == RemoveAt(cfg.profiles, i) IN
              Ok([cfg EXCEPT
                    !.profiles = rest,
                    !.active_profile_id =
                        IF cfg.active_profile_id = Some(id)
                        THEN (IF Len(rest) = 0 THEN None ELSE Some(rest[1].id))
                        ELSE @])

\* the closure of toggle_sound_setting
ToggleSoundMutator(cfg) == Ok([cfg EXCEPT !.sound_enabled = ~@])

\* the closure of update_hotkeys
HotkeysMutator(cfg, global_hotkey, switch_hotkey) ==
    Ok([cfg EXCEPT !.global_hotkey = global_hotkey,
                   !.switch_profile_hotkey = switch_hotkey])

\* updater(&mut *config) for the command o, with id the uuid it would draw
ApplyMutator(o, cfg, id) ==
    CASE o.kind = "create"        -> CreateMutator(cfg, o.name, id)
      [] o.kind = "update_active" -> UpdateActiveMutator(cfg, o.upd)
      [] o.kind = "set_active"    -> SetActiveMutator(cfg, o.id)
      [] o.kind = "delete"        -> DeleteMutator(cfg, o.id)
      [] o.kind = "toggle_sound"  -> ToggleSoundMutator(cfg)
      [] o.kind = "switch"        -> SetActiveMutator(cfg, o.id)
      [] o.kind = "update_hotkeys" -> HotkeysMutator(cfg, o.global_hotkey, o.switch_hotkey)

-----------------------------------------------------------------------------
(* Commands and their arguments *)

NoOp ==
    [ kind |-> "none", name |-> "", id |-> 0, upd |-> NoUpdate, cfg |-> None,
      global_hotkey |-> "", switch_hotkey |-> "" ]

Names == {DefaultName, "work", ""}
Ids == 1..MaxIds

Updates ==
    { [NoUpdate EXCEPT !.model = Some("gpt-4o")],
      [NoUpdate EXCEPT !.output_mode = Some("Dialog"), !.prompt_mode = Some(UserInput)] }

TxnOps ==
    {[NoOp EXCEPT !.kind = "create", !.name = n] : n \in Names}
    \cup {[NoOp EXCEPT !.kind = "update_active", !.upd = u] : u \in Updates}
    \cup {[NoOp EXCEPT !.kind = k, !.id = i] : k \in {"set_active", "delete"}, i \in Ids}
    \cup {[NoOp EXCEPT !.kind = "toggle_sound"]}

\* Configs the frontend may hand to update_config: any value that deserializes
NewConfigs ==
    { [DefaultConfig(1) EXCEPT !.sound_enabled = FALSE],
      [DefaultConfig(1) EXCEPT !.profiles = <<>>, !.active_profile_id = None] }

InitLoc ==
    [ clone   |-> None,     \* config_clone / the Config being saved
      wfd     |-> "none",   \* where the inode of the file being written is linked
      result  |-> "none",   \* what the command returned
      new_id  |-> None,     \* create_new_profile: result_profile_id
      error   |-> "",       \* the Err(String) of the mutator
      profile |-> None,     \* the Profile read by get_active_profile
      fx      |-> <<>>,     \* the events emitted and collaborators called, in order
      prompt  |-> None,     \* handle_screenshot_with_prompt: prompt
      api     |-> None,     \* analyze_image_with_prompt: active_profile
      sound   |-> FALSE,    \* analyze_image_with_prompt: sound_enabled
      attempt |-> 0,        \* analyze_image_request_internal: attempt
      last_error |-> "",    \* analyze_image_request_internal: last_error
      sent    |-> <<>>,     \* what each HTTP attempt issued so far came back with
      body    |-> <<>>,     \* the chunks of the success response's body
      stream  |-> <<>>,     \* the chunks the response body has yet to deliver
      buffer  |-> <<>>,     \* analyze_image_request_internal: buffer
      full_content |-> <<>>,\* analyze_image_request_internal: full_content
      ret     |-> None ]    \* the Result of analyze_image_with_prompt

\* create_new_profile calls waiting for or holding the lock: each may draw a uuid
PendingCreates ==
    Cardinality({t \in Tasks : pc[t] \in {"txn_lock", "txn_mut"} /\ op[t].kind = "create"})

-----------------------------------------------------------------------------
(* AppState::new on a first start: no config file, Config::default() *)

InitStore ==
    /\ mem = DefaultConfig(1)
    /\ lock = None
    /\ disk = Absent
    /\ tmpf = Absent
    /\ nextId = 2
    /\ pc = [t \in Tasks |-> "idle"]
    /\ op = [t \in Tasks |-> NoOp]
    /\ loc = [t \in Tasks |-> InitLoc]
    /\ cache = Absent
    /\ loaded_models = << >>
    /\ shortcuts = [global |-> Some(mem.global_hotkey),
                    switch |-> Some(mem.switch_profile_hotkey)]
    /\ pre = [t \in Tasks |-> [mem |-> DefaultConfig(1), disk |-> Absent, tmpf |-> Absent,
                             shortcuts |-> shortcuts]]
    /\ started = 0
    /\ anyErr = FALSE

Init == InitStore /\ opLimit = MaxOps

InitSolo == InitStore /\ opLimit = MaxSoloOps

Snapshot == [mem |-> mem, disk |-> disk, tmpf |-> tmpf, shortcuts |-> shortcuts]

-----------------------------------------------------------------------------
(* update_and_save_config *)

\* a command that is one transactional update is invoked
BeginTxn(t) ==
    /\ pc[t] = "idle"
    /\ started < opLimit
    /\ \E o \in TxnOps :
         /\ o.kind = "create" => nextId + PendingCreates <= MaxIds
         /\ op' = [op EXCEPT ![t] = o]
    /\ pc' = [pc EXCEPT ![t] = "txn_lock"]
    /\ loc' = [loc EXCEPT ![t] = InitLoc]
    /\ pre' = [pre EXCEPT ![t] = Snapshot]
    /\ started' = started + 1
    /\ UNCHANGED <<mem, lock, disk, tmpf, nextId, anyErr, opLimit, cache, loaded_models, shortcuts>>

\* let mut config = self.config.lock().await
TxnLock(t) ==
    /\ pc[t] = "txn_lock"
    /\ lock = None
    /\ lock' = Some(t)
    /\ pc' = [pc EXCEPT ![t] = "txn_mut"]
    /\ UNCHANGED <<mem, disk, tmpf, nextId, op, loc, pre, started, anyErr, opLimit, cache, loaded_models, shortcuts>>

\* an updater applied to the Config as it was when the command began
TxnMutate_Stale(t) ==
    /\ pc[t] = "txn_mut"
    /\ lock = Some(t)
    /\ LET r == ApplyMutator(op[t], pre[t].mem, nextId) IN
         /\ mem' = r.cfg
         /\ nextId' = IF op[t].kind = "create" /\ r.ok THEN nextId + 1 ELSE nextId
         /\ IF r.ok
            THEN /\ loc' = [loc EXCEPT ![t].clone = Some(r.cfg),
                                       ![t].new_id = IF op[t].kind = "create"
                                                     THEN r.cfg.active_profile_id
                                                     ELSE None]
                 /\ pc' = [pc EXCEPT ![t] = "save_open"]
                 /\ UNCHANGED anyErr
            ELSE /\ loc' = [loc EXCEPT ![t].result = "mut_err", ![t].error = r.err]
                 /\ pc' = [pc EXCEPT ![t] = "idle"]
                 /\ anyErr' = TRUE
    /\ lock' = None
    /\ UNCHANGED <<disk, tmpf, op, pre, started, opLimit, cache, loaded_models, shortcuts>>

\* updater(&mut *config)?; let config_clone = config.clone(); drop(config)
TxnMutate(t) ==
    /\ pc[t] = "txn_mut"
    /\ lock = Some(t)
    /\ LET r == ApplyMutator(op[t], mem, nextId) IN
         /\ mem' = r.cfg
         /\ nextId' = IF op[t].kind = "create" /\ r.ok THEN nextId + 1 ELSE nextId
         /\ IF r.ok
            THEN /\ loc' = [loc EXCEPT ![t].clone = Some(r.cfg),
                                       ![t].new_id = IF op[t].kind = "create"
                                                     THEN r.cfg.active_profile_id
                                                     ELSE None]
                 /\ pc' = [pc EXCEPT ![t] = "save_open"]
                 /\ UNCHANGED anyErr
            ELSE /\ loc' = [loc EXCEPT ![t].result = "mut_err", ![t].error = r.err]
                 /\ pc' = [pc EXCEPT ![t] = "idle"]
                 /\ anyErr' = TRUE
    /\ lock' = None
    /\ UNCHANGED <<disk, tmpf, op, pre, started, opLimit, cache, loaded_models, shortcuts>>

-----------------------------------------------------------------------------
(* save_config_atomic(config): fs::write(temp_path) creates or truncates   *)
(* the temporary file and then writes it; fs::rename moves it over the     *)
(* canonical path.  Every caller uses the same temporary path.  A task's   *)
(* open file follows its inode: wfd says where that inode is linked now.   *)

\* what an inode holds after data is written from offset 0 over content
Overwrite(content, data) ==
    IF content.kind = "json" /\ content # data
    THEN {data, Partial}        \* another writer's bytes may stick out behind
    ELSE {data}

\* fs::rename: the inode at the temporary path replaces the one at the canonical path
MoveFds(l) ==
    [u \in Tasks |->
        [l[u] EXCEPT !.wfd = IF @ = "tmp" THEN "canon"
                             ELSE IF @ = "canon" THEN "orphan" ELSE @]]

\* the command returns: r is "ok", "mut_err" or "io_err"
Return(l, t, r) == [l EXCEPT ![t].result = r, ![t].wfd = "none"]

Failed(t) == IF op[t].kind = "update_config" THEN anyErr ELSE TRUE

\* fs::write on the canonical path itself
WriteTempOpen_InPlace(t) ==
    /\ pc[t] = "save_open"
    /\ disk' = Partial
    /\ loc' = [loc EXCEPT ![t].wfd = "canon"]
    /\ pc' = [pc EXCEPT ![t] = "save_data"]
    /\ UNCHANGED <<mem, lock, tmpf, nextId, op, pre, started, anyErr, opLimit, cache, loaded_models, shortcuts>>

\* fs::write, first half: File::create(temp_path)
WriteTempOpen(t) ==
    /\ pc[t] = "save_open"
    /\ tmpf' = Partial
    /\ loc' = [loc EXCEPT ![t].wfd = "tmp"]
    /\ pc' = [pc EXCEPT ![t] = "save_data"]
    /\ UNCHANGED <<mem, lock, disk, nextId, op, pre, started, anyErr, opLimit, cache, loaded_models, shortcuts>>

\* fs::write, second half: write_all(config_data) and close
WriteTempData(t) ==
    /\ pc[t] = "save_data"
    /\ LET data == Serialize(Unwrap(loc[t].clone)) IN
         CASE loc[t].wfd = "tmp" ->
                /\ tmpf' \in Overwrite(tmpf, data)
                /\ UNCHANGED disk
           [] loc[t].wfd = "canon" ->
                /\ disk' \in Overwrite(disk, data)
                /\ UNCHANGED tmpf
           [] OTHER -> UNCHANGED <<disk, tmpf>>
    /\ loc' = [loc EXCEPT ![t].wfd = "none"]
    /\ pc' = [pc EXCEPT ![t] = "save_rename"]
    /\ UNCHANGED <<mem, lock, nextId, op, pre, started, anyErr, opLimit, cache, loaded_models, shortcuts>>

\* what follows a successful save: update_config goes on to store new_config,
\* switch_to_next_profile to read back the active profile, update_hotkeys to
\* register the shortcuts
AfterSave(t) ==
    CASE op[t].kind = "update_config" -> "uc_store"
      [] op[t].kind = "switch"        -> "sw_read"
      [] op[t].kind = "update_hotkeys" -> "hk_register"
      [] OTHER                        -> "idle"

\* fs::rename(temp_path, config_path); Err when the temporary path is gone
RenameTemp(t) ==
    /\ pc[t] = "save_rename"
    /\ IF tmpf = Absent
       THEN /\ loc' = Return(loc, t, "io_err")
            /\ pc' = [pc EXCEPT ![t] = "idle"]
            /\ anyErr' = Failed(t)
            /\ UNCHANGED <<disk, tmpf>>
       ELSE /\ disk' = tmpf
            /\ tmpf' = Absent
            /\ pc' = [pc EXCEPT ![t] = AfterSave(t)]
            /\ loc' = IF AfterSave(t) = "idle"
                      THEN Return(MoveFds(loc), t, "ok")
                      ELSE MoveFds(loc)
            /\ UNCHANGED anyErr
    /\ UNCHANGED <<mem, lock, nextId, op, pre, started, opLimit, cache, loaded_models, shortcuts>>

\* I/O faults of the file system: create_dir_all or File::create fails
WriteTempOpenFault(t) ==
    /\ pc[t] = "save_open"
    /\ loc' = Return(loc, t, "io_err")
    /\ pc' = [pc EXCEPT ![t] = "idle"]
    /\ anyErr' = Failed(t)
    /\ UNCHANGED <<mem, lock, disk, tmpf, nextId, op, pre, started, opLimit, cache, loaded_models, shortcuts>>

\* write_all fails part-way: the inode keeps an incomplete document
WriteTempDataFault(t) ==
    /\ pc[t] = "save_data"
    /\ CASE loc[t].wfd = "tmp"   -> tmpf' = Partial /\ UNCHANGED disk
         [] loc[t].wfd = "canon" -> disk' = Partial /\ UNCHANGED tmpf
         [] OTHER                -> UNCHANGED <<disk, tmpf>>
    /\ loc' = Return(loc, t, "io_err")
    /\ pc' = [pc EXCEPT ![t] = "idle"]
    /\ anyErr' = Failed(t)
    /\ UNCHANGED <<mem, lock, nextId, op, pre, started, opLimit, cache, loaded_models, shortcuts>>

\* fs::rename fails: both paths stay as they are
RenameTempFault(t) ==
    /\ pc[t] = "save_rename"
    /\ loc' = Return(loc, t, "io_err")
    /\ pc' = [pc EXCEPT ![t] = "idle"]
    /\ anyErr' = Failed(t)
    /\ UNCHANGED <<mem, lock, disk, tmpf, nextId, op, pre, started, opLimit, cache, loaded_models, shortcuts>>

-----------------------------------------------------------------------------
(* update_config(new_config): save first, then replace the in-memory Config *)

\* update_config that replaces the in-memory Config before it saves
BeginUpdateConfig_StoreFirst(t) ==
    /\ pc[t] = "idle"
    /\ started < opLimit
    /\ \E c \in NewConfigs :
         /\ op' = [op EXCEPT ![t] = [NoOp EXCEPT !.kind = "update_config", !.cfg = Some(c)]]
         /\ loc' = [loc EXCEPT ![t] = [InitLoc EXCEPT !.clone = Some(c)]]
         /\ mem' = c
    /\ pc' = [pc EXCEPT ![t] = "save_open"]
    /\ pre' = [pre EXCEPT ![t] = Snapshot]
    /\ started' = started + 1
    /\ UNCHANGED <<lock, disk, tmpf, nextId, anyErr, opLimit, cache, loaded_models, shortcuts>>

BeginUpdateConfig(t) ==
    /\ pc[t] = "idle"
    /\ started < opLimit
    /\ \E c \in NewConfigs :
         /\ op' = [op EXCEPT ![t] = [NoOp EXCEPT !.kind = "update_config", !.cfg = Some(c)]]
         /\ loc' = [loc EXCEPT ![t] = [InitLoc EXCEPT !.clone = Some(c)]]
    /\ pc' = [pc EXCEPT ![t] = "save_open"]
    /\ pre' = [pre EXCEPT ![t] = Snapshot]
    /\ started' = started + 1
    /\ UNCHANGED <<mem, lock, disk, tmpf, nextId, anyErr, opLimit, cache, loaded_models, shortcuts>>

\* let mut config = state.config.lock().await; *config = new_config
UpdateConfigStore(t) ==
    /\ pc[t] = "uc_store"
    /\ lock = None
    /\ mem' = Unwrap(op[t].cfg)
    /\ loc' = Return(loc, t, "ok")
    /\ pc' = [pc EXCEPT ![t] = "idle"]
    /\ UNCHANGED <<lock, disk, tmpf, nextId, op, pre, started, anyErr, opLimit, cache, loaded_models, shortcuts>>

-----------------------------------------------------------------------------
(* update_hotkeys and register_hotkeys_internal *)

\* the strings for which parse::<Shortcut>() returns Ok
ValidHotkeys == {"cmd+shift+m", "cmd+shift+p", "alt+x"}

\* register_hotkeys_internal: unregister_all, parse both strings, on_shortcut
\* for the global and then the switch shortcut; fail names the on_shortcut
\* call the plugin refuses, if any
RegisterHotkeysInternal(global_hotkey, switch_hotkey, fail) ==
    IF global_hotkey \notin ValidHotkeys \/ switch_hotkey \notin ValidHotkeys
          \/ fail = "global"
    THEN [ok |-> FALSE, shortcuts |-> [global |-> None, switch |-> None]]
    ELSE IF fail = "switch"
    THEN [ok |-> FALSE, shortcuts |-> [global |-> Some(global_hotkey), switch |-> None]]
    ELSE [ok |-> TRUE,
          shortcuts |-> [global |-> Some(global_hotkey), switch |-> Some(switch_hotkey)]]

\* the update_hotkeys command: update_and_save_config comes first
BeginUpdateHotkeys(t) ==
    /\ pc[t] = "idle"
    /\ started < opLimit
    /\ \E g \in {"cmd+shift+m", "alt+x", "not a key"}, w \in {"cmd+shift+p", "not a key"} :
         op' = [op EXCEPT ![t] = [NoOp EXCEPT !.kind = "update_hotkeys",
                                              !.global_hotkey = g, !.switch_hotkey = w]]
    /\ pc' = [pc EXCEPT ![t] = "txn_lock"]
    /\ loc' = [loc EXCEPT ![t] = InitLoc]
    /\ pre' = [pre EXCEPT ![t] = Snapshot]
    /\ started' = started + 1
    /\ UNCHANGED <<mem, lock, disk, tmpf, nextId, anyErr, opLimit, cache, loaded_models, shortcuts>>

\* register_hotkeys_internal(app_handle, gh, sh).await?
RegisterHotkeys(t) ==
    /\ pc[t] = "hk_register"
    /\ \E fail \in {"none", "global", "switch"} :
         LET r == RegisterHotkeysInternal(op[t].global_hotkey, op[t].switch_hotkey, fail) IN
         /\ shortcuts' = r.shortcuts
         /\ loc' = Return(loc, t, IF r.ok THEN "ok" ELSE "register_err")
    /\ pc' = [pc EXCEPT ![t] = "idle"]
    /\ UNCHANGED <<mem, lock, disk, tmpf, nextId, op, pre, started, anyErr, opLimit, cache, loaded_models>>

-----------------------------------------------------------------------------
(* AppState::new and the setup hook *)

\* load_config: Some(Config), or None for Err; id is the uuid Config::default draws
LoadConfig(file, id) ==
    CASE file.kind = "absent" -> Some(DefaultConfig(id))
      [] file.kind = "json"   -> Some(file.cfg)
      [] OTHER                -> None

\* load_cached_models: Some(list), or None for Err
LoadCachedModels(file) ==
    CASE file.kind = "absent" -> Some(<< >>)
      [] file.kind = "json"   -> Some(file.models)
      [] OTHER                -> None

\* AppState::new that starts with whatever could be read
NewAppState_NoFallback(config_file, models_file, id) ==
    [ config |-> IF IsSome(LoadConfig(config_file, id))
                 THEN Unwrap(LoadConfig(config_file, id))
                 ELSE [DefaultConfig(id) EXCEPT !.profiles = << >>,
                                                !.active_profile_id = None],
      loaded_models |-> IF IsSome(LoadCachedModels(models_file))
                        THEN Unwrap(LoadCachedModels(models_file))
                        ELSE << >> ]

\* AppState::new: unwrap_or_else on both loads
NewAppState(config_file, models_file, id) ==
    [ config |-> IF IsSome(LoadConfig(config_file, id))
                 THEN Unwrap(LoadConfig(config_file, id))
                 ELSE DefaultConfig(id),
      loaded_models |-> IF IsSome(LoadCachedModels(models_file))
                        THEN Unwrap(LoadCachedModels(models_file))
                        ELSE << >> ]

\* the application is quit while no command runs and started again: AppState::new
\* reads both files, the setup hook registers the hotkeys of the Config
Restart ==
    /\ \A t \in Tasks : pc[t] = "idle"
    /\ lock = None
    /\ started < opLimit
    /\ LET app == NewAppState(disk, cache, nextId) IN
         /\ mem' = app.config
         /\ loaded_models' = app.loaded_models
         /\ shortcuts' = RegisterHotkeysInternal(app.config.global_hotkey,
                                                 app.config.switch_profile_hotkey,
                                                 "none").shortcuts
    /\ nextId' = IF disk.kind = "json" THEN nextId ELSE nextId + 1
    /\ op' = [t \in Tasks |-> [NoOp EXCEPT !.kind = "restart"]]
    /\ loc' = [t \in Tasks |-> InitLoc]
    /\ pre' = [t \in Tasks |-> Snapshot]
    /\ started' = started + 1
    /\ UNCHANGED <<lock, disk, tmpf, pc, anyErr, opLimit, cache>>

-----------------------------------------------------------------------------
(* Reads of the Config *)

\* get_active_profile: Some(profile), or None for Err("No profiles available")
\* a lookup that ignores active_profile_id
GetActiveProfile_First(cfg) ==
    IF Len(cfg.profiles) > 0 THEN Some(cfg.profiles[1]) ELSE None

GetActiveProfile(cfg) ==
    LET i == IF IsSome(cfg.active_profile_id)
             THEN Position(cfg.profiles, Unwrap(cfg.active_profile_id))
             ELSE 0 IN
    IF i # 0 THEN Some(cfg.profiles[i])
    ELSE IF Len(cfg.profiles) > 0 THEN Some(cfg.profiles[1])
    ELSE None

\* get_next_profile_id that stops at the last profile instead of wrapping
GetNextProfileId_NoWrap(cfg) ==
    IF Len(cfg.profiles) = 0 THEN None
    ELSE IF Len(cfg.profiles) = 1 THEN Some(cfg.profiles[1].id)
    ELSE LET pos == IF IsSome(cfg.active_profile_id)
                    THEN Position(cfg.profiles, Unwrap(cfg.active_profile_id))
                    ELSE 0
             current_index == IF pos = 0 THEN 0 ELSE pos - 1
             next_index == IF current_index + 1 < Len(cfg.profiles)
                           THEN current_index + 1
                           ELSE current_index
         IN Some(cfg.profiles[next_index + 1].id)

\* get_next_profile_id: Some(id), or None for Err("No profiles available")
GetNextProfileId(cfg) ==
    IF Len(cfg.profiles) = 0 THEN None
    ELSE IF Len(cfg.profiles) = 1 THEN Some(cfg.profiles[1].id)
    ELSE LET pos == IF IsSome(cfg.active_profile_id)
                    THEN Position(cfg.profiles, Unwrap(cfg.active_profile_id))
                    ELSE 0
             current_index == IF pos = 0 THEN 0 ELSE pos - 1
             next_index == (current_index + 1) % Len(cfg.profiles)
         IN Some(cfg.profiles[next_index + 1].id)

Emit(l, t, ev, arg) == [l EXCEPT ![t].fx = Append(@, [ev |-> ev, arg |-> arg])]

-----------------------------------------------------------------------------
(* switch_to_next_profile *)

BeginSwitch(t) ==
    /\ pc[t] = "idle"
    /\ started < opLimit
    /\ op' = [op EXCEPT ![t] = [NoOp EXCEPT !.kind = "switch"]]
    /\ pc' = [pc EXCEPT ![t] = "sw_next"]
    /\ loc' = [loc EXCEPT ![t] = InitLoc]
    /\ pre' = [pre EXCEPT ![t] = Snapshot]
    /\ started' = started + 1
    /\ UNCHANGED <<mem, lock, disk, tmpf, nextId, anyErr, opLimit, cache, loaded_models, shortcuts>>

\* let next_profile_id = app_state.get_next_profile_id().await?
SwitchNext(t) ==
    /\ pc[t] = "sw_next"
    /\ lock = None
    /\ LET n == GetNextProfileId(mem) IN
         IF IsSome(n)
         THEN /\ op' = [op EXCEPT ![t].id = Unwrap(n)]
              /\ pc' = [pc EXCEPT ![t] = "txn_lock"]
              /\ UNCHANGED loc
         ELSE /\ loc' = Return(loc, t, "no_profiles")
              /\ pc' = [pc EXCEPT ![t] = "idle"]
              /\ UNCHANGED op
    /\ UNCHANGED <<mem, lock, disk, tmpf, nextId, pre, started, anyErr, opLimit, cache, loaded_models, shortcuts>>

\* let active_profile = app_state.get_active_profile().await?
SwitchRead(t) ==
    /\ pc[t] = "sw_read"
    /\ lock = None
    /\ LET p == GetActiveProfile(mem) IN
         IF IsSome(p)
         THEN /\ loc' = [loc EXCEPT ![t].profile = p]
              /\ pc' = [pc EXCEPT ![t] = "sw_emit"]
         ELSE /\ loc' = Return(loc, t, "no_profiles")
              /\ pc' = [pc EXCEPT ![t] = "idle"]
    /\ UNCHANGED <<mem, lock, disk, tmpf, nextId, op, pre, started, anyErr, opLimit, cache, loaded_models, shortcuts>>

\* show_profile_switch_notification and the tray updates that follow it
SwitchEmit(t) ==
    /\ pc[t] = "sw_emit"
    /\ loc' = Return(Emit(loc, t, "profile-switched", Unwrap(loc[t].profile).name), t, "ok")
    /\ pc' = [pc EXCEPT ![t] = "idle"]
    /\ UNCHANGED <<mem, lock, disk, tmpf, nextId, op, pre, started, anyErr, opLimit, cache, loaded_models, shortcuts>>

SwitchStep(t) ==
    \/ BeginSwitch(t)
    \/ SwitchNext(t)
    \/ SwitchRead(t)
    \/ SwitchEmit(t)

-----------------------------------------------------------------------------
(* The response stream.  A byte string is a sequence of tokens: "\n", " ", *)
(* the prefix "data: ", the sentinel "[DONE]", and payloads: "{a}" and     *)
(* "{b}" stand for JSON objects whose choices[0].delta.content is "a" and  *)
(* "b", "{}" for a JSON object without that field, "junk" for text that is *)
(* not JSON.  A chunk is a byte string, or a read error.                   *)

Chunk(bytes) == [err |-> FALSE, bytes |-> bytes]
ReadError == [err |-> TRUE, bytes |-> <<>>]

\* delta.get("content").and_then(|c| c.as_str()) of serde_json::from_str(data)
ContentOf(data) ==
    IF data = <<"{a}">> THEN <<"a">>
    ELSE IF data = <<"{b}">> THEN <<"b">>
    ELSE <<>>

\* str::trim
RECURSIVE TrimStart(_)
TrimStart(line) ==
    IF line # <<>> /\ Head(line) = " " THEN TrimStart(Tail(line)) ELSE line

RECURSIVE TrimEnd(_)
TrimEnd(line) ==
    IF line # <<>> /\ line[Len(line)] = " "
    THEN TrimEnd(SubSeq(line, 1, Len(line) - 1))
    ELSE line

Trim(line) == TrimEnd(TrimStart(line))

\* buffer.find('\n'): index of the first newline, 0 if none
FindNewline(buffer) ==
    IF \E i \in 1..Len(buffer) : buffer[i] = "\n"
    THEN CHOOSE i \in 1..Len(buffer) :
             buffer[i] = "\n" /\ \A j \in 1..(i - 1) : buffer[j] # "\n"
    ELSE 0

\* "while let Some(line_end) = buffer.find('\n')": the buffer and the content
\* accumulated when the loop over the complete lines ends
RECURSIVE ProcessLines(_, _)
ProcessLines(buffer, full_content) ==
    LET line_end == FindNewline(buffer) IN
    IF line_end = 0
    THEN [buffer |-> buffer, full_content |-> full_content]
    ELSE LET line == Trim(SubSeq(buffer, 1, line_end - 1))
             rest == SubSeq(buffer, line_end + 1, Len(buffer))
         IN IF line # <<>> /\ Head(line) = "data: "
            THEN IF Tail(line) = <<"[DONE]">>
                 THEN [buffer |-> rest, full_content |-> full_content]   \* break
                 ELSE ProcessLines(rest, full_content \o ContentOf(Tail(line)))
            ELSE ProcessLines(rest, full_content)

\* a body with one content frame and the sentinel
ValidStream == << Chunk(<<"data: ", "{a}", "\n">>), Chunk(<<"data: ", "[DONE]", "\n">>) >>

\* the bodies a success response may deliver
Streams ==
    { ValidStream,
      << Chunk(<<"data: ", "{}", "\n">>) >>,
      << Chunk(<<"data: ", "{a}", "\n">>), ReadError >>,
      << ReadError >> }

\* the lines a server may send, without their newline
LineAlphabet ==
    { <<"data: ", "{a}">>, <<"data: ", "{b}">>, <<"data: ", "[DONE]">>,
      <<"data: ", "{}">>, <<"data: ", "junk">>, <<"junk">>, <<" ", "data: ", "{a}">> }

LineSeqs == UNION { [1..n -> LineAlphabet] : n \in 1..MaxLines }

\* the bytes of a sequence of newline-terminated lines
RECURSIVE Bytes(_)
Bytes(ls) == IF ls = <<>> THEN <<>> ELSE Head(ls) \o <<"\n">> \o Bytes(Tail(ls))

\* the chunks bytes arrive in when the transport cuts after the positions in cuts
RECURSIVE SplitAt(_, _, _)
SplitAt(bytes, cuts, start) ==
    LET later == {c \in cuts : c >= start} IN
    IF later = {}
    THEN << Chunk(SubSeq(bytes, start, Len(bytes))) >>
    ELSE LET c == CHOOSE x \in later : \A y \in later : x <= y
         IN << Chunk(SubSeq(bytes, start, c)) >> \o SplitAt(bytes, cuts, c + 1)

\* every way the transport may deliver bytes in at most MaxChunks chunks
Chunkings(bytes) ==
    { SplitAt(bytes, cuts, 1) :
        cuts \in {c \in SUBSET (1..(Len(bytes) - 1)) : Cardinality(c) < MaxChunks} }

\* the bodies of newline-terminated lines, in every chunking
AllStreams == UNION { Chunkings(Bytes(ls)) : ls \in LineSeqs }

TransportErrors == {"connection refused", "timeout"}
ErrorStatuses == {401, 500}
\* response.text().await.unwrap_or_default()
ErrorBodies == {"", "error body"}

\* "for attempt in 1..=4"
MaxAttempts_Four == 3 + 1

\* "for attempt in 1..=3" and "if attempt < 3"
MaxAttempts == 3

\* what one HTTP attempt came back with
Outcome(out, status, detail) == [out |-> out, status |-> status, detail |-> detail]

\* Result<String, String> of the analysis
AnOk(text) == [ok |-> TRUE, kind |-> "Ok", text |-> text, status |-> 0, detail |-> ""]
AnErr(kind, status, detail) ==
    [ok |-> FALSE, kind |-> kind, text |-> <<>>, status |-> status, detail |-> detail]

-----------------------------------------------------------------------------
(* analyze_image_with_prompt and analyze_image_request_internal *)

\* where the caller goes on when the analysis has returned r
AfterAnalyze(t, r) ==
    IF op[t].kind = "run"
    THEN (IF r.ok THEN "deliver" ELSE "emit_err")
    ELSE "idle"

\* analyze_image_with_prompt returns r
AnalyzeReturns(l, t, r) ==
    IF op[t].kind = "run"
    THEN [l EXCEPT ![t].ret = Some(r)]
    ELSE [l EXCEPT ![t].ret = Some(r), ![t].result = IF r.ok THEN "ok" ELSE "err"]

\* the analyze_image command: analyze_image_internal(image_data, state, None)
BeginAnalyze(t) ==
    /\ pc[t] = "idle"
    /\ started < opLimit
    /\ op' = [op EXCEPT ![t] = [NoOp EXCEPT !.kind = "analyze"]]
    /\ pc' = [pc EXCEPT ![t] = "an_read"]
    /\ loc' = [loc EXCEPT ![t] = InitLoc]
    /\ pre' = [pre EXCEPT ![t] = Snapshot]
    /\ started' = started + 1
    /\ UNCHANGED <<mem, lock, disk, tmpf, nextId, anyErr, opLimit, cache, loaded_models, shortcuts>>

\* let active_profile = state.get_active_profile().await?
AnalyzeRead(t) ==
    /\ pc[t] = "an_read"
    /\ lock = None
    /\ LET p == GetActiveProfile(mem) IN
         IF IsSome(p)
         THEN /\ loc' = [loc EXCEPT ![t].api = p]
              /\ pc' = [pc EXCEPT ![t] = "an_sound"]
         ELSE LET r == AnErr("NoProfiles", 0, "") IN
              /\ loc' = AnalyzeReturns(loc, t, r)
              /\ pc' = [pc EXCEPT ![t] = AfterAnalyze(t, r)]
    /\ UNCHANGED <<mem, lock, disk, tmpf, nextId, op, pre, started, anyErr, opLimit, cache, loaded_models, shortcuts>>

\* a validation that forgets base_url
Validate_KeyOnly(p) ==
    IF p.api_config.api_key = "" THEN "MissingCredentials"
    ELSE IF p.api_config.model = "" THEN "MissingModel"
    ELSE ""

\* the validation of the API configuration: "" when it passes
Validate(p) ==
    IF p.api_config.api_key = "" \/ p.api_config.base_url = "" THEN "MissingCredentials"
    ELSE IF p.api_config.model = "" THEN "MissingModel"
    ELSE ""

\* let config = state.config.lock().await; let sound_enabled = ...; drop(config);
\* then the validation, which needs no await unless it fails on a hotkey run
AnalyzeSound(t) ==
    /\ pc[t] = "an_sound"
    /\ lock = None
    /\ LET v == Validate(Unwrap(loc[t].api))
           l == [loc EXCEPT ![t].sound = mem.sound_enabled]
       IN IF v = ""
          THEN /\ loc' = [l EXCEPT ![t].attempt = 1]
               /\ pc' = [pc EXCEPT ![t] = "send"]
          ELSE IF op[t].kind = "run"
          THEN /\ loc' = l
               /\ pc' = [pc EXCEPT ![t] = "an_alert"]
          ELSE /\ loc' = AnalyzeReturns(l, t, AnErr(v, 0, ""))
               /\ pc' = [pc EXCEPT ![t] = "idle"]
    /\ UNCHANGED <<mem, lock, disk, tmpf, nextId, op, pre, started, anyErr, opLimit, cache, loaded_models, shortcuts>>

Call(l, t, what, arg) == Emit(l, t, what, arg)

\* hotkey run with missing credentials or model: play_error_sound when
\* sound_enabled, show_system_dialog, return Err
AnalyzeAlert(t) ==
    /\ pc[t] = "an_alert"
    /\ LET r == AnErr(Validate(Unwrap(loc[t].api)), 0, "")
           l1 == IF loc[t].sound THEN Call(loc, t, "play_error_sound", "") ELSE loc
           l2 == Call(l1, t, "show_system_dialog", "error")
       IN /\ loc' = AnalyzeReturns(l2, t, r)
          /\ pc' = [pc EXCEPT ![t] = AfterAnalyze(t, r)]
    /\ UNCHANGED <<mem, lock, disk, tmpf, nextId, op, pre, started, anyErr, opLimit, cache, loaded_models, shortcuts>>

\* the analysis has returned r from the request loop
RequestReturns(t, l, r) ==
    /\ loc' = AnalyzeReturns(l, t, r)
    /\ pc' = [pc EXCEPT ![t] = AfterAnalyze(t, r)]

\* request.try_clone()...send().await fails at transport level
SendFails(t) ==
    /\ pc[t] = "send"
    /\ \E e \in TransportErrors :
         LET l == [loc EXCEPT ![t].last_error = e,
                              ![t].sent = Append(@, Outcome("transport_error", 0, e))] IN
         IF loc[t].attempt < MaxAttempts
         THEN /\ loc' = l
              /\ pc' = [pc EXCEPT ![t] = "sleep"]
         ELSE RequestReturns(t, l, AnErr("AllAttemptsFailed", 0, e))
    /\ UNCHANGED <<mem, lock, disk, tmpf, nextId, op, pre, started, anyErr, opLimit, cache, loaded_models, shortcuts>>

\* tokio::time::sleep(2 s), then the next iteration of "for attempt in 1..=3"
Sleep(t) ==
    /\ pc[t] = "sleep"
    /\ loc' = [loc EXCEPT ![t].attempt = @ + 1]
    /\ pc' = [pc EXCEPT ![t] = "send"]
    /\ UNCHANGED <<mem, lock, disk, tmpf, nextId, op, pre, started, anyErr, opLimit, cache, loaded_models, shortcuts>>

\* an error status handled like a transport failure: recorded and retried
SendGetsErrorStatus_Retry(t) ==
    /\ pc[t] = "send"
    /\ \E st \in ErrorStatuses, body \in ErrorBodies :
         LET l == [loc EXCEPT ![t].last_error = body,
                              ![t].sent = Append(@, Outcome("error_status", st, body))] IN
         IF loc[t].attempt < MaxAttempts
         THEN /\ loc' = l
              /\ pc' = [pc EXCEPT ![t] = "sleep"]
         ELSE RequestReturns(t, l, AnErr("AllAttemptsFailed", 0, body))
    /\ UNCHANGED <<mem, lock, disk, tmpf, nextId, op, pre, started, anyErr, opLimit, cache, loaded_models, shortcuts>>

\* send().await gives a response whose status is not a success
SendGetsErrorStatus(t) ==
    /\ pc[t] = "send"
    /\ \E st \in ErrorStatuses, body \in ErrorBodies :
         RequestReturns(t, [loc EXCEPT ![t].sent = Append(@, Outcome("error_status", st, body))],
                        AnErr("HttpStatus", st, body))
    /\ UNCHANGED <<mem, lock, disk, tmpf, nextId, op, pre, started, anyErr, opLimit, cache, loaded_models, shortcuts>>

\* send().await gives a success response: response.bytes_stream()
SendGetsStream(t) ==
    /\ pc[t] = "send"
    /\ \E s \in Streams :
         loc' = [loc EXCEPT ![t].sent = Append(@, Outcome("success", 200, "")),
                            ![t].body = s, ![t].stream = s,
                            ![t].buffer = <<>>, ![t].full_content = <<>>]
    /\ pc' = [pc EXCEPT ![t] = "recv"]
    /\ UNCHANGED <<mem, lock, disk, tmpf, nextId, op, pre, started, anyErr, opLimit, cache, loaded_models, shortcuts>>

\* send().await gives a success response whose body is any sequence of lines
SendGetsLines(t) ==
    /\ pc[t] = "send"
    /\ \E s \in AllStreams :
         loc' = [loc EXCEPT ![t].sent = Append(@, Outcome("success", 200, "")),
                            ![t].body = s, ![t].stream = s,
                            ![t].buffer = <<>>, ![t].full_content = <<>>]
    /\ pc' = [pc EXCEPT ![t] = "recv"]
    /\ UNCHANGED <<mem, lock, disk, tmpf, nextId, op, pre, started, anyErr, opLimit, cache, loaded_models, shortcuts>>

\* a failed stream treated like a transport failure: the request is retried
Receive_RetryOnFailure(t) ==
    /\ pc[t] = "recv"
    /\ LET failed == \/ (loc[t].stream = <<>> /\ loc[t].full_content = <<>>)
                     \/ (loc[t].stream # <<>> /\ Head(loc[t].stream).err)
       IN IF failed /\ loc[t].attempt < MaxAttempts
          THEN /\ loc' = [loc EXCEPT ![t].last_error = "stream"]
               /\ pc' = [pc EXCEPT ![t] = "sleep"]
          ELSE IF loc[t].stream = <<>>
          THEN RequestReturns(t, loc,
                   IF loc[t].full_content # <<>>
                   THEN AnOk(loc[t].full_content)
                   ELSE AnErr("EmptyResponse", 0, ""))
          ELSE LET chunk == Head(loc[t].stream) IN
               IF chunk.err
               THEN RequestReturns(t, loc, AnErr("ChunkRead", 0, ""))
               ELSE LET r == ProcessLines(loc[t].buffer \o chunk.bytes, loc[t].full_content) IN
                    /\ loc' = [loc EXCEPT ![t].stream = Tail(@),
                                          ![t].buffer = r.buffer,
                                          ![t].full_content = r.full_content]
                    /\ UNCHANGED pc
    /\ UNCHANGED <<mem, lock, disk, tmpf, nextId, op, pre, started, anyErr, opLimit, cache, loaded_models, shortcuts>>

\* stream.next().await: a chunk, a read error, or the end of the body
Receive(t) ==
    /\ pc[t] = "recv"
    /\ IF loc[t].stream = <<>>
       THEN RequestReturns(t, loc,
                IF loc[t].full_content # <<>>
                THEN AnOk(loc[t].full_content)
                ELSE AnErr("EmptyResponse", 0, ""))
       ELSE LET chunk == Head(loc[t].stream) IN
            IF chunk.err
            THEN RequestReturns(t, loc, AnErr("ChunkRead", 0, ""))
            ELSE LET r == ProcessLines(loc[t].buffer \o chunk.bytes, loc[t].full_content) IN
                 /\ loc' = [loc EXCEPT ![t].stream = Tail(@),
                                       ![t].buffer = r.buffer,
                                       ![t].full_content = r.full_content]
                 /\ UNCHANGED pc
    /\ UNCHANGED <<mem, lock, disk, tmpf, nextId, op, pre, started, anyErr, opLimit, cache, loaded_models, shortcuts>>

AnalyzeStep(t) ==
    \/ AnalyzeRead(t)
    \/ AnalyzeSound(t)
    \/ SendFails(t)
    \/ Sleep(t)
    \/ SendGetsErrorStatus(t)
    \/ SendGetsStream(t)
    \/ Receive(t)

-----------------------------------------------------------------------------
(* handle_global_hotkey: the capture+analyze run *)

\* a shortcut handler that drops a press while a run is in progress
BeginRun_Serialized(t) ==
    /\ pc[t] = "idle"
    /\ IsSome(shortcuts.global)
    /\ \A u \in Tasks : pc[u] = "idle"
    /\ started < opLimit
    /\ op' = [op EXCEPT ![t] = [NoOp EXCEPT !.kind = "run", !.id = started + 1]]
    /\ pc' = [pc EXCEPT ![t] = "run_read"]
    /\ loc' = [loc EXCEPT ![t] = InitLoc]
    /\ pre' = [pre EXCEPT ![t] = Snapshot]
    /\ started' = started + 1
    /\ UNCHANGED <<mem, lock, disk, tmpf, nextId, anyErr, opLimit, cache, loaded_models, shortcuts>>

\* the shortcut handler spawns handle_global_hotkey on a Pressed event; id is
\* the ordinal of the event
BeginRun(t) ==
    /\ pc[t] = "idle"
    /\ IsSome(shortcuts.global)
    /\ started < opLimit
    /\ op' = [op EXCEPT ![t] = [NoOp EXCEPT !.kind = "run", !.id = started + 1]]
    /\ pc' = [pc EXCEPT ![t] = "run_read"]
    /\ loc' = [loc EXCEPT ![t] = InitLoc]
    /\ pre' = [pre EXCEPT ![t] = Snapshot]
    /\ started' = started + 1
    /\ UNCHANGED <<mem, lock, disk, tmpf, nextId, anyErr, opLimit, cache, loaded_models, shortcuts>>

\* the shortcut handler on a Released event: nothing is spawned
ShortcutReleased(t) ==
    /\ pc[t] = "idle"
    /\ IsSome(shortcuts.global)
    /\ started < opLimit
    /\ op' = [op EXCEPT ![t] = [NoOp EXCEPT !.kind = "released", !.id = started + 1]]
    /\ loc' = [loc EXCEPT ![t] = InitLoc]
    /\ pre' = [pre EXCEPT ![t] = Snapshot]
    /\ started' = started + 1
    /\ UNCHANGED <<mem, lock, disk, tmpf, nextId, pc, anyErr, opLimit, cache, loaded_models, shortcuts>>

\* a run that captures at once whatever the prompt mode
RunRead_CaptureFirst(t) ==
    /\ pc[t] = "run_read"
    /\ lock = None
    /\ LET p == GetActiveProfile(mem) IN
         IF IsSome(p)
         THEN /\ loc' = [loc EXCEPT ![t].profile = p,
                                    ![t].prompt = Some(Unwrap(p).prompt_mode.text)]
              /\ pc' = [pc EXCEPT ![t] = "capture"]
         ELSE /\ loc' = Return(loc, t, "no_profiles")
              /\ pc' = [pc EXCEPT ![t] = "idle"]
    /\ UNCHANGED <<mem, lock, disk, tmpf, nextId, op, pre, started, anyErr, opLimit, cache, loaded_models, shortcuts>>

\* match state.get_active_profile().await, then match active_profile.prompt_mode
RunRead(t) ==
    /\ pc[t] = "run_read"
    /\ lock = None
    /\ LET p == GetActiveProfile(mem) IN
         IF IsSome(p)
         THEN IF Unwrap(p).prompt_mode.tag = "Predefined"
              THEN /\ loc' = [loc EXCEPT ![t].profile = p,
                                         ![t].prompt = Some(Unwrap(p).prompt_mode.text)]
                   /\ pc' = [pc EXCEPT ![t] = "capture"]
              ELSE /\ loc' = [loc EXCEPT ![t].profile = p]
                   /\ pc' = [pc EXCEPT ![t] = "input_dialog"]
         ELSE /\ loc' = Return(loc, t, "no_profiles")
              /\ pc' = [pc EXCEPT ![t] = "idle"]
    /\ UNCHANGED <<mem, lock, disk, tmpf, nextId, op, pre, started, anyErr, opLimit, cache, loaded_models, shortcuts>>

\* an input dialog whose empty text is passed on as the prompt
InputDialog_BlankProceeds(t) ==
    /\ pc[t] = "input_dialog"
    /\ \E answer \in {"text", "blank", "cancel"} :
         LET l == Call(loc, t, "show_input_dialog", answer) IN
         IF answer # "cancel"
         THEN /\ loc' = [l EXCEPT ![t].prompt = Some("user prompt")]
              /\ pc' = [pc EXCEPT ![t] = "capture"]
         ELSE /\ loc' = Return(l, t, "aborted")
              /\ pc' = [pc EXCEPT ![t] = "idle"]
    /\ UNCHANGED <<mem, lock, disk, tmpf, nextId, op, pre, started, anyErr, opLimit, cache, loaded_models, shortcuts>>

\* handle_screenshot_with_user_input: show_input_dialog, then the check of the text
InputDialog(t) ==
    /\ pc[t] = "input_dialog"
    /\ \E answer \in {"text", "blank", "cancel"} :
         LET l == Call(loc, t, "show_input_dialog", answer) IN
         IF answer = "text"
         THEN /\ loc' = [l EXCEPT ![t].prompt = Some("user prompt")]
              /\ pc' = [pc EXCEPT ![t] = "capture"]
         ELSE /\ loc' = Return(l, t, "aborted")
              /\ pc' = [pc EXCEPT ![t] = "idle"]
    /\ UNCHANGED <<mem, lock, disk, tmpf, nextId, op, pre, started, anyErr, opLimit, cache, loaded_models, shortcuts>>

\* handle_screenshot_with_prompt: take_interactive_screenshot().await; on Err
\* the event screenshot_error is emitted with the error text
Capture(t) ==
    /\ pc[t] = "capture"
    /\ \E shot \in {"image", "Screenshot was cancelled", "Screenshot file too large"} :
         LET l == Call(loc, t, "take_interactive_screenshot", shot) IN
         IF shot = "image"
         THEN /\ loc' = l
              /\ pc' = [pc EXCEPT ![t] = "an_read"]
         ELSE /\ loc' = Return(Emit(l, t, "screenshot_error", shot), t, "capture_err")
              /\ pc' = [pc EXCEPT ![t] = "idle"]
    /\ UNCHANGED <<mem, lock, disk, tmpf, nextId, op, pre, started, anyErr, opLimit, cache, loaded_models, shortcuts>>

\* a delivery that ignores output_mode
Deliver_AlwaysClipboard(t) ==
    /\ pc[t] = "deliver"
    /\ loc' = Call(loc, t, "copy_to_clipboard", "result")
    /\ pc' = [pc EXCEPT ![t] = "ok_sound"]
    /\ UNCHANGED <<mem, lock, disk, tmpf, nextId, op, pre, started, anyErr, opLimit, cache, loaded_models, shortcuts>>

\* match output_mode: copy_to_clipboard(result) or show_system_dialog(result)
Deliver(t) ==
    /\ pc[t] = "deliver"
    /\ loc' = Call(loc, t,
                   IF Unwrap(loc[t].profile).output_mode = "Clipboard"
                   THEN "copy_to_clipboard" ELSE "show_system_dialog",
                   "result")
    /\ pc' = [pc EXCEPT ![t] = "ok_sound"]
    /\ UNCHANGED <<mem, lock, disk, tmpf, nextId, op, pre, started, anyErr, opLimit, cache, loaded_models, shortcuts>>

\* let config = state.config.lock().await; if config.sound_enabled { ... }
\* the guard lives until the end of the if-let block
SoundCheck(t) ==
    /\ pc[t] = "ok_sound"
    /\ lock = None
    /\ IF mem.sound_enabled
       THEN /\ lock' = Some(t)
            /\ pc' = [pc EXCEPT ![t] = "ok_play"]
       ELSE /\ UNCHANGED lock
            /\ pc' = [pc EXCEPT ![t] = "ok_emit"]
    /\ UNCHANGED <<mem, disk, tmpf, nextId, op, loc, pre, started, anyErr, opLimit, cache, loaded_models, shortcuts>>

\* a success sound after which the guard is never dropped
PlaySound_KeepGuard(t) ==
    /\ pc[t] = "ok_play"
    /\ lock = Some(t)
    /\ loc' = Call(loc, t, "play_system_sound", "")
    /\ pc' = [pc EXCEPT ![t] = "ok_emit"]
    /\ UNCHANGED <<mem, lock, disk, tmpf, nextId, op, pre, started, anyErr, opLimit, cache, loaded_models, shortcuts>>

\* play_system_sound().await, then the guard is dropped
PlaySound(t) ==
    /\ pc[t] = "ok_play"
    /\ lock = Some(t)
    /\ loc' = Call(loc, t, "play_system_sound", "")
    /\ lock' = None
    /\ pc' = [pc EXCEPT ![t] = "ok_emit"]
    /\ UNCHANGED <<mem, disk, tmpf, nextId, op, pre, started, anyErr, opLimit, cache, loaded_models, shortcuts>>

\* app_handle.emit("analysis_result", result)
EmitResult(t) ==
    /\ pc[t] = "ok_emit"
    /\ loc' = Return(Emit(loc, t, "analysis_result", "result"), t, "ok")
    /\ pc' = [pc EXCEPT ![t] = "idle"]
    /\ UNCHANGED <<mem, lock, disk, tmpf, nextId, op, pre, started, anyErr, opLimit, cache, loaded_models, shortcuts>>

\* app_handle.emit("analysis_error", sanitize_error(&e))
EmitError(t) ==
    /\ pc[t] = "emit_err"
    /\ loc' = Return(Emit(loc, t, "analysis_error", Unwrap(loc[t].ret).kind), t, "err")
    /\ pc' = [pc EXCEPT ![t] = "idle"]
    /\ UNCHANGED <<mem, lock, disk, tmpf, nextId, op, pre, started, anyErr, opLimit, cache, loaded_models, shortcuts>>

RunStep(t) ==
    \/ BeginRun(t)
    \/ RunRead(t)
    \/ InputDialog(t)
    \/ Capture(t)
    \/ AnalyzeAlert(t)
    \/ Deliver(t)
    \/ SoundCheck(t)
    \/ PlaySound(t)
    \/ EmitResult(t)
    \/ EmitError(t)

-----------------------------------------------------------------------------
(* Specifications *)

\* update_and_save_config on a file system that does not fault
TxnStep(t) ==
    \/ BeginTxn(t)
    \/ TxnLock(t)
    \/ TxnMutate(t)
    \/ WriteTempOpen(t)
    \/ WriteTempData(t)
    \/ RenameTemp(t)

\* concurrent transactional updates
NextTxn == \E t \in Tasks : TxnStep(t) \/ SwitchStep(t)

SpecTxn == Init /\ [][NextTxn]_vars

\* every command of the store, one at a time, on a file system that may fault
NextSolo ==
    \/ TxnStep(1)
    \/ SwitchStep(1)
    \/ BeginUpdateConfig(1)
    \/ UpdateConfigStore(1)
    \/ WriteTempOpenFault(1)
    \/ WriteTempDataFault(1)
    \/ RenameTempFault(1)

SpecSolo == InitSolo /\ [][NextSolo]_vars


\* a Config loaded from config.json whose profile has credentials and a model
ConfiguredConfig(id) ==
    [DefaultConfig(id) EXCEPT
        !.profiles[1].api_config = [base_url |-> DefaultBaseUrl, api_key |-> "sk-key",
                                    model |-> "llava"]]

InitLoaded ==
    /\ mem \in {DefaultConfig(1), ConfiguredConfig(1)}
    /\ lock = None
    /\ disk = Serialize(mem)
    /\ tmpf = Absent
    /\ nextId = 2
    /\ pc = [t \in Tasks |-> "idle"]
    /\ op = [t \in Tasks |-> NoOp]
    /\ loc = [t \in Tasks |-> InitLoc]
    /\ cache = Absent
    /\ loaded_models = << >>
    /\ shortcuts = [global |-> Some(mem.global_hotkey),
                    switch |-> Some(mem.switch_profile_hotkey)]
    /\ pre = [t \in Tasks |-> [mem |-> mem, disk |-> disk, tmpf |-> Absent,
                             shortcuts |-> shortcuts]]
    /\ started = 0
    /\ anyErr = FALSE

\* the analyze_image command, one call at a time
InitAnalyze == InitLoaded /\ opLimit = MaxSoloOps

NextAnalyze == BeginAnalyze(1) \/ AnalyzeStep(1)

SpecAnalyze == InitAnalyze /\ [][NextAnalyze]_vars

\* the settings the settings page may send to update_active_profile_config
ApiUpdates ==
    { [NoUpdate EXCEPT !.api_key = Some("sk-key")],
      [NoUpdate EXCEPT !.model = Some("gpt-4o")],
      [NoUpdate EXCEPT !.api_key = Some("sk-key"), !.model = Some("gpt-4o")],
      [NoUpdate EXCEPT !.base_url = Some("")],
      [NoUpdate EXCEPT !.name = Some("renamed")],
      [ name |-> Some("renamed"), base_url |-> Some("http://localhost/v1"),
        api_key |-> Some("sk-key"), model |-> Some("gpt-4o"),
        prompt_mode |-> Some(UserInput), output_mode |-> Some("Dialog") ] }

\* the update_active_profile_config command with an API setting
BeginConfigure(t) ==
    /\ pc[t] = "idle"
    /\ started < opLimit
    /\ \E u \in ApiUpdates :
         op' = [op EXCEPT ![t] = [NoOp EXCEPT !.kind = "update_active", !.upd = u]]
    /\ pc' = [pc EXCEPT ![t] = "txn_lock"]
    /\ loc' = [loc EXCEPT ![t] = InitLoc]
    /\ pre' = [pre EXCEPT ![t] = Snapshot]
    /\ started' = started + 1
    /\ UNCHANGED <<mem, lock, disk, tmpf, nextId, anyErr, opLimit, cache, loaded_models, shortcuts>>

\* a fresh store on which the user edits the API settings and calls
\* analyze_image, one command at a time
NextScenario ==
    \/ BeginConfigure(1)
    \/ TxnLock(1)
    \/ TxnMutate(1)
    \/ WriteTempOpen(1)
    \/ WriteTempData(1)
    \/ RenameTemp(1)
    \/ BeginAnalyze(1)
    \/ AnalyzeStep(1)

SpecScenario == InitSolo /\ [][NextScenario]_vars

\* the Configs config.json may hold when it is loaded: load_config and
\* update_config accept every Config that deserializes
StoredConfigs ==
    { [DefaultConfig(1) EXCEPT !.profiles = ps, !.active_profile_id = a] :
        ps \in { <<>>,
                 << NewProfile(1, DefaultName) >>,
                 << NewProfile(1, DefaultName), NewProfile(2, "work") >>,
                 << NewProfile(2, "work"), NewProfile(1, DefaultName) >>,
                 << NewProfile(1, DefaultName), NewProfile(2, "work"), NewProfile(3, "home") >> },
        a \in {None} \cup {Some(i) : i \in Ids} }

InitRead ==
    /\ mem \in StoredConfigs
    /\ lock = None
    /\ disk = Serialize(mem)
    /\ tmpf = Absent
    /\ nextId = MaxIds + 1
    /\ pc = [t \in Tasks |-> "idle"]
    /\ op = [t \in Tasks |-> NoOp]
    /\ loc = [t \in Tasks |-> InitLoc]
    /\ cache = Absent
    /\ loaded_models = << >>
    /\ shortcuts = [global |-> Some(mem.global_hotkey),
                    switch |-> Some(mem.switch_profile_hotkey)]
    /\ pre = [t \in Tasks |-> [mem |-> mem, disk |-> disk, tmpf |-> Absent,
                             shortcuts |-> shortcuts]]
    /\ started = 0
    /\ anyErr = FALSE
    /\ opLimit = MaxSoloOps

\* analyze_image calls, which begin with get_active_profile, on any stored Config
NextRead ==
    \/ BeginAnalyze(1)
    \/ AnalyzeRead(1)
    \/ AnalyzeSound(1)

SpecRead == InitRead /\ [][NextRead]_vars

\* the profile commands and the profile switch, one at a time, on any stored
\* Config
NextStore ==
    \/ TxnStep(1)
    \/ BeginConfigure(1)
    \/ SwitchStep(1)

SpecStore == InitRead /\ [][NextStore]_vars

\* presses of the switch shortcut at any time, on a stored Config of two or
\* three profiles whose first profile is active
InitSwitch ==
    /\ InitRead
    /\ Len(mem.profiles) >= 2
    /\ mem.active_profile_id = Some(mem.profiles[1].id)

NextSwitch ==
    \E t \in Tasks :
        \/ SwitchStep(t)
        \/ TxnLock(t)
        \/ TxnMutate(t)
        \/ WriteTempOpen(t)
        \/ WriteTempData(t)
        \/ RenameTemp(t)

SpecSwitch == InitSwitch /\ [][NextSwitch]_vars

\* a start on whatever ~/.mathimage holds, then update_hotkeys commands and
\* restarts, one at a time
InitApp ==
    /\ disk \in {Absent, Partial} \cup {Serialize(c) : c \in StoredConfigs}
    /\ cache \in {Absent, Partial, [kind |-> "json", models |-> << "llava" >>]}
    /\ mem = NewAppState(disk, cache, 1).config
    /\ loaded_models = NewAppState(disk, cache, 1).loaded_models
    /\ shortcuts = RegisterHotkeysInternal(mem.global_hotkey, mem.switch_profile_hotkey,
                                           "none").shortcuts
    /\ lock = None
    /\ tmpf = Absent
    /\ nextId = MaxIds + 1
    /\ pc = [t \in Tasks |-> "idle"]
    /\ op = [t \in Tasks |-> NoOp]
    /\ loc = [t \in Tasks |-> InitLoc]
    /\ pre = [t \in Tasks |-> Snapshot]
    /\ started = 0
    /\ anyErr = FALSE
    /\ opLimit = MaxSoloOps

NextApp ==
    \/ Restart
    \/ BeginUpdateHotkeys(1)
    \/ TxnLock(1)
    \/ TxnMutate(1)
    \/ WriteTempOpen(1)
    \/ WriteTempData(1)
    \/ RenameTemp(1)
    \/ RegisterHotkeys(1)

SpecApp == InitApp /\ [][NextApp]_vars

\* the Configs a hotkey run may find: API settings present or not, either
\* prompt mode and output mode, sound on or off
HotkeyConfigs ==
    { [c EXCEPT !.profiles[1].prompt_mode = m[1], !.profiles[1].output_mode = m[2],
                !.sound_enabled = snd] :
        c \in {DefaultConfig(1), ConfiguredConfig(1)},
        m \in {<<Predefined(DefaultPrompt), "Clipboard">>, <<UserInput, "Dialog">>},
        snd \in BOOLEAN }

InitHotkey ==
    /\ mem \in HotkeyConfigs
    /\ lock = None
    /\ disk = Serialize(mem)
    /\ tmpf = Absent
    /\ nextId = 2
    /\ pc = [t \in Tasks |-> "idle"]
    /\ op = [t \in Tasks |-> NoOp]
    /\ loc = [t \in Tasks |-> InitLoc]
    /\ cache = Absent
    /\ loaded_models = << >>
    /\ shortcuts = [global |-> Some(mem.global_hotkey),
                    switch |-> Some(mem.switch_profile_hotkey)]
    /\ pre = [t \in Tasks |-> [mem |-> mem, disk |-> disk, tmpf |-> Absent,
                             shortcuts |-> shortcuts]]
    /\ started = 0
    /\ anyErr = FALSE
    /\ opLimit = MaxOps

\* presses and releases of the global shortcut, each run ending before the
\* next event
NextHotkey ==
    \/ ShortcutReleased(1)
    \/ RunStep(1)
    \/ AnalyzeStep(1)

SpecHotkey == InitHotkey /\ [][NextHotkey]_vars

\* presses and releases of the global shortcut at any time, on a configured
\* store or on the default store asking for the prompt
InitPresses ==
    /\ InitHotkey
    /\ mem.sound_enabled
    /\ Validate(mem.profiles[1]) = "" <=> mem.profiles[1].prompt_mode # UserInput

NextPresses ==
    \E t \in Tasks :
        \/ ShortcutReleased(t)
        \/ RunStep(t)
        \/ AnalyzeStep(t)

SpecPresses == InitPresses /\ [][NextPresses]_vars

\* one analyze_image call on a configured store whose request is answered
\* with a success status
InitStream == InitLoaded /\ mem = ConfiguredConfig(1) /\ opLimit = 1

NextStream ==
    \/ BeginAnalyze(1)
    \/ AnalyzeRead(1)
    \/ AnalyzeSound(1)
    \/ SendGetsLines(1)
    \/ Receive(1)

SpecStream == InitStream /\ [][NextStream]_vars

\* hotkey runs concurrent with each other, with transactional updates and
\* with profile switches
InitRun == InitLoaded /\ opLimit = MaxOps

NextRun ==
    \E t \in Tasks :
        \/ RunStep(t)
        \/ AnalyzeStep(t)
        \/ TxnStep(t)
        \/ SwitchStep(t)

SpecRun == InitRun /\ [][NextRun]_vars

\* hotkey runs of one task against the transactional updates and profile
\* switches of the other, under the scheduling of the async runtime: a task
\* that can take a step is eventually polled, and every external call and
\* network attempt returns
NextFair ==
    \/ RunStep(1)
    \/ AnalyzeStep(1)
    \/ TxnStep(2)
    \/ SwitchStep(2)

\* one command for each task
InitFair == InitLoaded /\ opLimit = Cardinality(Tasks)

FairRun ==
    /\ InitFair
    /\ [][NextFair]_vars
    /\ WF_vars(RunStep(1) \/ AnalyzeStep(1))
    /\ WF_vars(TxnStep(2) \/ SwitchStep(2))

-----------------------------------------------------------------------------
(* Claims about the transactional update *)

AllIdle == \A t \in Tasks : pc[t] = "idle"

IsTxn(t) == op[t].kind \in {"create", "update_active", "set_active", "delete", "toggle_sound"}

\* C1: once every started transactional update has returned success, the
\* Config at the canonical path equals the in-memory Config.
C1_CompletedUpdatesArePersisted ==
    (AllIdle /\ started > 0 /\ ~anyErr) => disk = Serialize(mem)

\* C2: a transactional update whose persist step failed with an I/O error
\* has returned an error and has left the in-memory Config and the canonical
\* file as they were before it started.
C2_PersistFailureLeavesStateUnchanged ==
    \A t \in Tasks :
        (pc[t] = "idle" /\ IsTxn(t) /\ loc[t].result = "io_err")
            => (mem = pre[t].mem /\ disk = pre[t].disk)

\* C3: a step in which the mutator of a transactional update fails ends the
\* update with an error, without entering the persist step, and leaves the
\* in-memory Config, the temporary file and the canonical file unchanged.
C3_FailedMutatorChangesNothing ==
    [][\A t \in Tasks :
          (pc[t] = "txn_mut" /\ pc'[t] # "txn_mut"
              /\ ~ApplyMutator(op[t], mem, nextId).ok)
          => /\ mem' = mem
             /\ disk' = disk
             /\ tmpf' = tmpf
             /\ pc'[t] = "idle"
             /\ loc'[t].result = "mut_err"]_vars

\* a create_profile with a duplicate name has failed
C3_Witness ==
    \E t \in Tasks :
        /\ pc[t] = "idle"
        /\ op[t].kind = "create"
        /\ loc[t].result = "mut_err"
        /\ mem = pre[t].mem /\ disk = pre[t].disk /\ tmpf = pre[t].tmpf

\* C4: the in-memory profiles sequence is never empty.
C4_ProfilesNeverEmpty == Len(mem.profiles) >= 1

\* C5: active_profile_id, if set, is the id of some element of profiles.
C5_ActiveProfileIdReferencesProfile ==
    IsSome(mem.active_profile_id)
        => Position(mem.profiles, Unwrap(mem.active_profile_id)) # 0

\* the profile that was active has been deleted
C5_Witness ==
    \E t \in Tasks :
        /\ pc[t] = "idle"
        /\ op[t].kind = "delete"
        /\ loc[t].result = "ok"
        /\ pre[t].mem.active_profile_id = Some(op[t].id)
        /\ mem.active_profile_id # Some(op[t].id)
        /\ IsSome(mem.active_profile_id)

InPersist(t) == pc[t] \in {"save_open", "save_data", "save_rename"}

\* C6: while one transaction persists, and after it, the canonical file holds
\* the complete prior contents or the complete new Config; until the rename
\* it holds the prior contents.
C6_CanonicalFileIsPriorOrNew ==
    \A t \in Tasks :
        /\ InPersist(t) => disk = pre[t].disk
        /\ IsSome(loc[t].clone)
             => disk \in {pre[t].disk, Serialize(Unwrap(loc[t].clone))}

\* the temporary file is written and not yet renamed over an older Config
C6_Witness ==
    /\ pc[1] = "save_rename"
    /\ tmpf = Serialize(Unwrap(loc[1].clone))
    /\ disk.kind = "json"
    /\ disk = pre[1].disk
    /\ disk # tmpf

-----------------------------------------------------------------------------
(* Claims about the hotkey run and the analysis request *)

\* the await points at which a task is in disk I/O, a network request or a
\* call to an external collaborator
ExternalPcs ==
    { "save_open", "save_data", "save_rename", "input_dialog", "capture", "an_alert",
      "send", "sleep", "recv", "deliver", "ok_play", "ok_emit", "emit_err", "sw_emit" }

\* C7: no task holds the Config lock while it performs disk I/O, a network
\* request or a call to an external collaborator.
C7_LockNotHeldAcrossIO ==
    \A t \in Tasks : pc[t] \in ExternalPcs => lock # Some(t)

\* C8: the API config a run sends its request with belongs to the profile the
\* run read at its start, from which its prompt and output mode come.
C8_RunUsesOneProfile ==
    \A t \in Tasks :
        (op[t].kind = "run" /\ IsSome(loc[t].profile) /\ IsSome(loc[t].api))
            => /\ Unwrap(loc[t].api).id = Unwrap(loc[t].profile).id
               /\ Unwrap(loc[t].api).api_config = Unwrap(loc[t].profile).api_config

Returned(t) == IsSome(loc[t].ret)

AllTransportErrors(sent) == \A i \in 1..Len(sent) : sent[i].out = "transport_error"

\* C9: analyze issues at most 3 HTTP attempts; when the transport fails twice
\* and then delivers a valid stream it succeeds after exactly 3 attempts; when
\* every attempt fails at transport level it fails after exactly 3 attempts
\* with the all-attempts-failed error carrying the last transport error.
C9_RetryBound ==
    \A t \in Tasks :
        /\ Len(loc[t].sent) <= 3
        /\ ( /\ Returned(t)
             /\ Len(loc[t].sent) >= 3
             /\ AllTransportErrors(SubSeq(loc[t].sent, 1, 2))
             /\ loc[t].sent[3].out = "success"
             /\ loc[t].body = ValidStream )
           => /\ Unwrap(loc[t].ret) = AnOk(<<"a">>)
              /\ Len(loc[t].sent) = 3
        /\ ( /\ pc[t] \notin {"send", "sleep"}
             /\ loc[t].sent # <<>>
             /\ AllTransportErrors(loc[t].sent) )
           => /\ Returned(t)
              /\ Len(loc[t].sent) = 3
              /\ Unwrap(loc[t].ret) = AnErr("AllAttemptsFailed", 0, loc[t].sent[3].detail)

\* two transport failures, then success on the third attempt
C9_Witness ==
    \E t \in Tasks :
        /\ Returned(t)
        /\ Len(loc[t].sent) = 3
        /\ loc[t].sent[1].detail # loc[t].sent[2].detail
        /\ loc[t].sent[3].out = "success"
        /\ Unwrap(loc[t].ret).ok

\* C10: an attempt that receives a non-success status is the last attempt: the
\* call has failed with the error carrying that status and body.
C10_ErrorStatusFailsAtOnce ==
    \A t \in Tasks :
        \A i \in 1..Len(loc[t].sent) :
            loc[t].sent[i].out = "error_status"
                => /\ i = Len(loc[t].sent)
                   /\ Returned(t)
                   /\ pc[t] \notin {"send", "sleep", "recv"}
                   /\ Unwrap(loc[t].ret) =
                        AnErr("HttpStatus", loc[t].sent[i].status, loc[t].sent[i].detail)

\* an error status received on the second attempt
C10_Witness ==
    \E t \in Tasks :
        /\ Len(loc[t].sent) = 2
        /\ loc[t].sent[1].out = "transport_error"
        /\ loc[t].sent[2].out = "error_status"
        /\ loc[t].sent[2].detail # ""
        /\ Returned(t)

HasReadError(body) == \E i \in 1..Len(body) : body[i].err

\* C11: an attempt that received a success status is the last attempt of its
\* call, and the call's result is the result of consuming that response's
\* stream: a read error gives the chunk-read error, a stream without content
\* the empty-response error.
C11_SuccessStatusIsTerminal ==
    \A t \in Tasks :
        \A i \in 1..Len(loc[t].sent) :
            loc[t].sent[i].out = "success"
                => /\ i = Len(loc[t].sent)
                   /\ pc[t] \notin {"send", "sleep"}
                   /\ (pc[t] # "recv") => Returned(t)
                   /\ Returned(t) =>
                        /\ Unwrap(loc[t].ret).kind \in {"Ok", "ChunkRead", "EmptyResponse"}
                        /\ HasReadError(loc[t].body) => Unwrap(loc[t].ret).kind = "ChunkRead"
                        /\ (~HasReadError(loc[t].body) /\ loc[t].full_content = <<>>)
                              => Unwrap(loc[t].ret).kind = "EmptyResponse"

\* a stream failure on the second attempt, with an attempt still left
C11_Witness ==
    \E t \in Tasks :
        /\ Len(loc[t].sent) = 2
        /\ loc[t].sent[2].out = "success"
        /\ Returned(t)
        /\ Unwrap(loc[t].ret).kind \in {"ChunkRead", "EmptyResponse"}

\* the profile that was active when task t's command began
ActiveAtStart(t) == Unwrap(GetActiveProfile(pre[t].mem))

IsAnalyze(t) == op[t].kind = "analyze"

DefaultWith(key, model) ==
    [DefaultConfig(1) EXCEPT !.profiles[1].api_config.api_key = key,
                             !.profiles[1].api_config.model = model]

\* the transport answered the only attempt with one content frame and [DONE]
TransportDeliversFrame(t) ==
    /\ Len(loc[t].sent) = 1
    /\ loc[t].sent[1].out = "success"
    /\ loc[t].body = ValidStream

\* the transport misbehaved: some attempt came back otherwise
TransportDeviates(t) == loc[t].sent # <<>> /\ ~TransportDeliversFrame(t)

\* C13 as stated: on the default store analyze fails with the missing-model
\* error before any network call; once update_active_profile_config has set
\* the model to "gpt-4o", and the transport returns one content frame followed
\* by [DONE], analyze returns that frame's content.
C13_DefaultStoreScenario ==
    \A t \in Tasks :
        (IsAnalyze(t) /\ Returned(t)) =>
            /\ pre[t].mem = DefaultConfig(1)
                 => (Unwrap(loc[t].ret) = AnErr("MissingModel", 0, "") /\ loc[t].sent = <<>>)
            /\ pre[t].mem = DefaultWith("", "gpt-4o")
                 => (Unwrap(loc[t].ret) = AnOk(<<"a">>) \/ TransportDeviates(t))

-----------------------------------------------------------------------------
(* Claims about the reconstruction of the streamed text *)

\* the bytes of a sequence of chunks
RECURSIVE Flatten(_)
Flatten(body) == IF body = <<>> THEN <<>> ELSE Head(body).bytes \o Flatten(Tail(body))

\* the bytes task t's call has received so far
Consumed(t) == Flatten(SubSeq(loc[t].body, 1, Len(loc[t].body) - Len(loc[t].stream)))

\* the newline-terminated lines of bytes, trimmed
RECURSIVE CompleteLines(_)
CompleteLines(bytes) ==
    LET e == FindNewline(bytes) IN
    IF e = 0 THEN <<>>
    ELSE << Trim(SubSeq(bytes, 1, e - 1)) >> \o CompleteLines(SubSeq(bytes, e + 1, Len(bytes)))

IsDataLine(line) == line # <<>> /\ Head(line) = "data: "
IsDoneLine(line) == line = <<"data: ", "[DONE]">>

\* the delta.content strings of the data lines that precede the first
\* sentinel line, in order
RECURSIVE ContentUntilDone(_)
ContentUntilDone(lines) ==
    IF lines = <<>> \/ IsDoneLine(Head(lines)) THEN <<>>
    ELSE (IF IsDataLine(Head(lines)) THEN ContentOf(Tail(Head(lines))) ELSE <<>>)
            \o ContentUntilDone(Tail(lines))

\* the text task t's call returned, empty when it failed
ResultText(t) == IF Unwrap(loc[t].ret).ok THEN Unwrap(loc[t].ret).text ELSE <<>>

\* task t's call consumed a success response to its end without a read error
StreamConsumed(t) ==
    /\ IsAnalyze(t)
    /\ Returned(t)
    /\ loc[t].sent # <<>>
    /\ loc[t].sent[Len(loc[t].sent)].out = "success"
    /\ ~HasReadError(loc[t].body)

\* C14: the text accumulated from a body of newline-terminated lines does not
\* depend on how its bytes are cut into chunks: it is the text obtained when
\* the same bytes arrive as one chunk.
C14_ChunkingIndependent ==
    \A t \in Tasks :
        StreamConsumed(t)
            => ResultText(t) = ProcessLines(Flatten(loc[t].body), <<>>).full_content

\* C15: once a "data: [DONE]" line is among the lines received, the
\* accumulated text no longer grows.
C15_DoneEndsExtraction ==
    [][ \A t \in Tasks :
          (pc[t] = "recv" /\ \E i \in 1..Len(CompleteLines(Consumed(t))) :
                                  IsDoneLine(CompleteLines(Consumed(t))[i]))
              => loc'[t].full_content = loc[t].full_content ]_vars

\* C16: a call that consumed a success response returns the concatenation of
\* the delta.content strings of its complete data lines up to the sentinel,
\* and fails with the empty-response error exactly when that is empty.
C16_ResultIsConcatenation ==
    \A t \in Tasks :
        StreamConsumed(t)
            => LET text == ContentUntilDone(CompleteLines(Flatten(loc[t].body)))
               IN Unwrap(loc[t].ret) =
                      IF text # <<>> THEN AnOk(text) ELSE AnErr("EmptyResponse", 0, "")

-----------------------------------------------------------------------------
(* Claims about the profile commands *)

\* the profiles of cfg whose id is active_profile_id
ActiveMatches(cfg) ==
    { i \in 1..Len(cfg.profiles) : cfg.active_profile_id = Some(cfg.profiles[i].id) }

\* C17: get_active_profile returns the profile whose id is active_profile_id
\* when there is one, the first profile when active_profile_id is unset or
\* references no profile, fails only when profiles is empty, and leaves the
\* Config in memory and on disk as it was.
C17_GetActiveProfile ==
    [][ \A t \in Tasks :
          (pc[t] = "an_read" /\ pc'[t] # "an_read")
              => /\ mem' = mem /\ disk' = disk /\ tmpf' = tmpf
                 /\ IF mem.profiles = <<>>
                    THEN loc'[t].ret = Some(AnErr("NoProfiles", 0, ""))
                    ELSE /\ loc'[t].ret = None
                         /\ \E p \in {mem.profiles[i] : i \in 1..Len(mem.profiles)} :
                              /\ loc'[t].api = Some(p)
                              /\ IF ActiveMatches(mem) # {}
                                 THEN mem.active_profile_id = Some(p.id)
                                 ELSE p = mem.profiles[1] ]_vars

\* get_active_profile returned the active profile, which is not the first one
C17_Witness ==
    \E t \in Tasks :
        /\ IsAnalyze(t)
        /\ Len(mem.profiles) = 2
        /\ loc[t].api = Some(mem.profiles[2])

\* task t's create_profile is at its mutator, which returns in this step
CreateMutates(t) ==
    pc[t] = "txn_mut" /\ pc'[t] # "txn_mut" /\ op[t].kind = "create"

NameTaken(cfg, name) == \E i \in 1..Len(cfg.profiles) : cfg.profiles[i].name = name

\* C18: create_profile with a non-empty name that a profile of the store
\* already has fails and leaves profiles, active_profile_id and the persisted
\* Config as they were; no two profiles of the store have the same name.
C18_DuplicateNameRejected ==
    /\ [][ \A t \in Tasks :
             (CreateMutates(t) /\ op[t].name # "" /\ NameTaken(mem, op[t].name))
                 => /\ loc'[t].result = "mut_err"
                    /\ pc'[t] = "idle"
                    /\ mem'.profiles = mem.profiles
                    /\ mem'.active_profile_id = mem.active_profile_id
                    /\ disk' = disk ]_vars
    /\ [](\A i, j \in 1..Len(mem.profiles) :
             mem.profiles[i].name = mem.profiles[j].name => i = j)

\* a second create_profile("work") has failed on a store that holds "work"
C18_Witness ==
    \E t \in Tasks :
        /\ pc[t] = "idle"
        /\ op[t].kind = "create"
        /\ op[t].name = "work"
        /\ loc[t].result = "mut_err"
        /\ NameTaken(mem, "work")
        /\ Len(mem.profiles) = 2

\* C19: create_profile with the empty name fails and adds no profile.
C19_EmptyNameRejected ==
    [][ \A t \in Tasks :
          (CreateMutates(t) /\ op[t].name = "")
              => /\ loc'[t].result = "mut_err"
                 /\ mem'.profiles = mem.profiles ]_vars

\* C20: a create_profile whose name is free appends one profile at the end of
\* profiles, the others unchanged and in order; the new profile has an id no
\* profile of the store had, the default API config with empty key and model,
\* a Predefined prompt and Clipboard output; active_profile_id is the new id,
\* and the call that succeeds returns that id.
C20_CreateAppendsAndActivates ==
    /\ [][ \A t \in Tasks :
             (CreateMutates(t) /\ ~NameTaken(mem, op[t].name))
                 => \E id \in Ids :
                      /\ \A i \in 1..Len(mem.profiles) : mem.profiles[i].id # id
                      /\ Len(mem'.profiles) = Len(mem.profiles) + 1
                      /\ SubSeq(mem'.profiles, 1, Len(mem.profiles)) = mem.profiles
                      /\ LET p == mem'.profiles[Len(mem'.profiles)] IN
                           /\ p.id = id
                           /\ p.name = op[t].name
                           /\ p.api_config.api_key = "" /\ p.api_config.model = ""
                           /\ p.api_config.base_url = DefaultBaseUrl
                           /\ p.prompt_mode.tag = "Predefined"
                           /\ p.output_mode = "Clipboard"
                      /\ mem'.active_profile_id = Some(id)
                      /\ loc'[t].new_id = Some(id) ]_vars
    /\ [](\A t \in Tasks :
             (pc[t] = "idle" /\ op[t].kind = "create" /\ loc[t].result = "ok")
                 => /\ IsSome(loc[t].new_id)
                    /\ \A i \in 1..Len(pre[t].mem.profiles) :
                          pre[t].mem.profiles[i].id # Unwrap(loc[t].new_id))

\* create_profile("work") has returned the id of the profile it appended to
\* a store of one profile
C20_Witness ==
    \E t \in Tasks :
        /\ pc[t] = "idle"
        /\ op[t].kind = "create"
        /\ loc[t].result = "ok"
        /\ Len(mem.profiles) = 2
        /\ mem.profiles[2].name = "work"
        /\ loc[t].new_id = Some(mem.profiles[2].id)
        /\ mem.active_profile_id = loc[t].new_id

\* task t's command of this kind is at its mutator, which returns in this step
Mutates(t, kind) == pc[t] = "txn_mut" /\ pc'[t] # "txn_mut" /\ op[t].kind = kind

\* the mutator of task t fails in this step with error e and changes nothing
FailsWith(t, e) ==
    /\ loc'[t].result = "mut_err"
    /\ loc'[t].error = e
    /\ pc'[t] = "idle"
    /\ mem' = mem
    /\ disk' = disk

\* C21: delete_profile on a store of exactly one profile fails with the
\* last-profile error for every id, and leaves memory and disk unchanged.
C21_LastProfileKept ==
    [][ \A t \in Tasks :
          (Mutates(t, "delete") /\ Len(mem.profiles) = 1) => FailsWith(t, "LastProfile") ]_vars

\* delete_profile of an unknown id has failed on a store of one profile
C21_Witness ==
    \E t \in Tasks :
        /\ pc[t] = "idle"
        /\ op[t].kind = "delete"
        /\ loc[t].error = "LastProfile"
        /\ Len(mem.profiles) = 1
        /\ mem.profiles[1].id # op[t].id
        /\ mem = pre[t].mem /\ disk = pre[t].disk

\* C22: on a store of two or more profiles delete_profile(id) of an existing
\* id removes that profile and keeps the others in order; active_profile_id
\* becomes the id of the new first profile if it referenced the removed
\* profile and is unchanged otherwise; an unknown id fails and changes nothing.
C22_DeleteRemovesOne ==
    [][ \A t \in Tasks :
          (Mutates(t, "delete") /\ Len(mem.profiles) >= 2)
              => IF \E i \in 1..Len(mem.profiles) : mem.profiles[i].id = op[t].id
                 THEN /\ mem'.profiles = SelectSeq(mem.profiles, LAMBDA p : p.id # op[t].id)
                      /\ Len(mem'.profiles) = Len(mem.profiles) - 1
                      /\ mem'.active_profile_id =
                            IF mem.active_profile_id = Some(op[t].id)
                            THEN Some(mem'.profiles[1].id)
                            ELSE mem.active_profile_id
                      /\ pc'[t] = "save_open"
                 ELSE FailsWith(t, "NotFound") ]_vars

\* the active profile, the last of three, was deleted: the first is active
C22_Witness ==
    \E t \in Tasks :
        /\ pc[t] = "idle"
        /\ op[t].kind = "delete"
        /\ loc[t].result = "ok"
        /\ Len(pre[t].mem.profiles) = 3
        /\ pre[t].mem.active_profile_id = Some(op[t].id)
        /\ pre[t].mem.profiles[3].id = op[t].id
        /\ Len(mem.profiles) = 2
        /\ mem.active_profile_id = Some(mem.profiles[1].id)

\* C23: set_active_profile(id) fails when no profile has the id and changes
\* nothing; otherwise active_profile_id becomes id and the rest of the Config
\* is unchanged.
C23_SetActiveProfile ==
    [][ \A t \in Tasks :
          Mutates(t, "set_active")
              => IF \E i \in 1..Len(mem.profiles) : mem.profiles[i].id = op[t].id
                 THEN /\ mem' = [mem EXCEPT !.active_profile_id = Some(op[t].id)]
                      /\ pc'[t] = "save_open"
                 ELSE FailsWith(t, "NotFound") ]_vars

\* set_active_profile has moved the active profile from the first to the second
C23_Witness ==
    \E t \in Tasks :
        /\ pc[t] = "idle"
        /\ op[t].kind = "set_active"
        /\ loc[t].result = "ok"
        /\ Len(mem.profiles) >= 2
        /\ pre[t].mem.active_profile_id = Some(mem.profiles[1].id)
        /\ mem.active_profile_id = Some(mem.profiles[2].id)
        /\ op[t].id = mem.profiles[2].id

\* C24: get_next_profile_id returns the only profile's id on a store of one
\* profile; on n >= 2 profiles it returns the id at index (i + 1) mod n, i
\* being the index of the active profile, or 0 when active_profile_id is unset
\* or references no profile; the Config is unchanged.
C24_GetNextProfileId ==
    [][ \A t \in Tasks :
          (pc[t] = "sw_next" /\ pc'[t] # "sw_next" /\ mem.profiles # <<>>)
              => LET n == Len(mem.profiles)
                     i == IF ActiveMatches(mem) # {}
                          THEN (CHOOSE k \in ActiveMatches(mem) : TRUE) - 1
                          ELSE 0
                 IN /\ mem' = mem /\ disk' = disk
                    /\ op'[t].id = IF n = 1 THEN mem.profiles[1].id
                                   ELSE mem.profiles[((i + 1) % n) + 1].id ]_vars

\* on three profiles with the last one active the next id is the first one's
C24_Witness ==
    \E t \in Tasks :
        /\ pc[t] = "txn_lock"
        /\ op[t].kind = "switch"
        /\ Len(mem.profiles) = 3
        /\ mem.active_profile_id = Some(mem.profiles[3].id)
        /\ op[t].id = mem.profiles[1].id

\* C25: update_active_profile_config sets, on the active profile, the fields
\* present in the update and leaves everything else as it was: the omitted
\* fields and the id of that profile, the other profiles, active_profile_id
\* and the global settings.
C25_UpdateChangesOnlyGivenFields ==
    [][ \A t \in Tasks :
          (Mutates(t, "update_active") /\ ActiveMatches(mem) # {})
              => LET i == CHOOSE k \in ActiveMatches(mem) : TRUE
                     u == op[t].upd
                     old == mem.profiles[i]
                     new == mem'.profiles[i]
                 IN /\ Len(mem'.profiles) = Len(mem.profiles)
                    /\ \A j \in 1..Len(mem.profiles) : j # i => mem'.profiles[j] = mem.profiles[j]
                    /\ new.id = old.id
                    /\ new.name = (IF u.name = <<>> THEN old.name ELSE u.name[1])
                    /\ new.api_config.base_url =
                          (IF u.base_url = <<>> THEN old.api_config.base_url ELSE u.base_url[1])
                    /\ new.api_config.api_key =
                          (IF u.api_key = <<>> THEN old.api_config.api_key ELSE u.api_key[1])
                    /\ new.api_config.model =
                          (IF u.model = <<>> THEN old.api_config.model ELSE u.model[1])
                    /\ new.prompt_mode =
                          (IF u.prompt_mode = <<>> THEN old.prompt_mode ELSE u.prompt_mode[1])
                    /\ new.output_mode =
                          (IF u.output_mode = <<>> THEN old.output_mode ELSE u.output_mode[1])
                    /\ mem'.active_profile_id = mem.active_profile_id
                    /\ mem'.global_hotkey = mem.global_hotkey
                    /\ mem'.switch_profile_hotkey = mem.switch_profile_hotkey
                    /\ mem'.sound_enabled = mem.sound_enabled
                    /\ pc'[t] = "save_open" ]_vars

\* the second of two profiles, the active one, got a new model and nothing else
C25_Witness ==
    \E t \in Tasks :
        /\ pc[t] = "idle"
        /\ op[t].kind = "update_active"
        /\ loc[t].result = "ok"
        /\ op[t].upd.model = Some("gpt-4o") /\ op[t].upd.api_key = None
        /\ Len(mem.profiles) = 2
        /\ mem.active_profile_id = Some(mem.profiles[2].id)
        /\ mem.profiles[2].api_config.model = "gpt-4o"
        /\ pre[t].mem.profiles[2].api_config.model = ""
        /\ mem.profiles[1] = pre[t].mem.profiles[1]

\* the run of task t has called the collaborator or emitted the event ev with arg
Called(t, ev, arg) == \E i \in 1..Len(loc[t].fx) : loc[t].fx[i] = [ev |-> ev, arg |-> arg]

\* the run of task t has delivered its result through either output mode
Delivered(t) ==
    Called(t, "copy_to_clipboard", "result") \/ Called(t, "show_system_dialog", "result")

\* C26: hotkey dispatch is edge-triggered and not serialized: a Released event
\* starts nothing (no task leaves idle and no effect is produced), only a
\* Pressed event takes a task out of idle, and while a run is in progress a
\* further press can still start a second run, which begins from a fresh local
\* state and leaves the run in progress untouched.
C26_EdgeTriggeredNotSerialized ==
    /\ [][\A t \in Tasks :
            /\ (op'[t] # op[t] /\ op'[t].kind = "released")
                    => (pc' = pc /\ loc'[t].fx = <<>> /\ mem' = mem /\ lock' = lock
                        /\ \A u \in Tasks \ {t} : loc'[u] = loc[u])
            /\ (pc[t] = "idle" /\ pc'[t] # "idle")
                    => /\ op'[t].kind = "run" /\ op'[t].id = started'
                       /\ pc'[t] = "run_read"
                       /\ loc'[t] = InitLoc
                       /\ \A u \in Tasks \ {t} :
                              pc'[u] = pc[u] /\ loc'[u] = loc[u] /\ op'[u] = op[u]]_vars
    /\ [](\A t \in Tasks :
            (pc[t] = "idle" /\ started < opLimit /\ \E u \in Tasks : op[u].kind = "run" /\ pc[u] # "idle")
                => ENABLED BeginRun(t))

\* two runs in progress at once, and the run of the later press has delivered
\* its output while the run of the earlier press has not
C26_Witness ==
    \E t, u \in Tasks :
        /\ op[t].kind = "run" /\ pc[t] # "idle"
        /\ op[u].kind = "run" /\ pc[u] # "idle"
        /\ op[t].id < op[u].id
        /\ Delivered(u) /\ ~Delivered(t)
        /\ loc[t].fx # <<>>

\* the run of task t has ended
RunEnded(t) == op[t].kind = "run" /\ pc[t] = "idle"

\* the run of task t has ended with an error of the capture or of the analysis
\* that is not the cancellation of the capture
FailedNotCancelled(t) ==
    /\ RunEnded(t)
    /\ \/ loc[t].result = "err"
       \/ loc[t].result = "capture_err"
          /\ ~Called(t, "take_interactive_screenshot", "Screenshot was cancelled")

SuccessEffects(t) ==
    SelectSeq(loc[t].fx,
              LAMBDA e : \/ e.ev \in {"copy_to_clipboard", "play_system_sound", "analysis_result"}
                         \/ e = [ev |-> "show_system_dialog", arg |-> "result"])

\* what a run with a successful analysis does: the delivery of output_mode,
\* the success sound when sound_enabled, the success event
ExpectedSuccessEffects(t) ==
    << [ev  |-> IF Unwrap(loc[t].profile).output_mode = "Clipboard"
                THEN "copy_to_clipboard" ELSE "show_system_dialog",
        arg |-> "result"] >>
    \o (IF mem.sound_enabled THEN << [ev |-> "play_system_sound", arg |-> ""] >> ELSE << >>)
    \o << [ev |-> "analysis_result", arg |-> "result"] >>

\* C29: at every point of a run the deliveries, success sounds and success
\* events done so far are a prefix of: one delivery through the profile's
\* output_mode with the result, then the success sound if sound_enabled, then
\* the success event; a run that ended successfully has done all of them, and
\* a run whose analysis has not succeeded has done none.
C29_SuccessDelivery ==
    \A t \in Tasks :
        op[t].kind = "run"
            => IF IsSome(loc[t].ret) /\ Unwrap(loc[t].ret).ok
               THEN /\ Len(SuccessEffects(t)) <= Len(ExpectedSuccessEffects(t))
                    /\ SuccessEffects(t)
                         = SubSeq(ExpectedSuccessEffects(t), 1, Len(SuccessEffects(t)))
                    /\ pc[t] = "idle" => /\ loc[t].result = "ok"
                                         /\ SuccessEffects(t) = ExpectedSuccessEffects(t)
               ELSE /\ SuccessEffects(t) = << >>
                    /\ loc[t].result # "ok"

\* a run on a profile with output_mode Dialog and sound enabled has ended
\* after a successful analysis
C29_Witness ==
    \E t \in Tasks :
        /\ RunEnded(t) /\ loc[t].result = "ok"
        /\ Unwrap(loc[t].profile).output_mode = "Dialog"
        /\ mem.sound_enabled
        /\ Len(SuccessEffects(t)) = 3
        /\ Delivered(t)

\* C30: on a profile with prompt_mode UserInput, a cancelled input dialog or
\* an empty input ends the run at once: the dialog is the only call of the
\* run, no capture, no request, no delivery, no sound, no other dialog and no
\* event.
C30_EmptyInputAborts ==
    \A t \in Tasks :
        \A answer \in {"blank", "cancel"} :
            (op[t].kind = "run" /\ Called(t, "show_input_dialog", answer))
                => /\ pc[t] = "idle"
                   /\ loc[t].result = "aborted"
                   /\ loc[t].fx = << [ev |-> "show_input_dialog", arg |-> answer] >>
                   /\ loc[t].sent = << >>
                   /\ ~IsSome(loc[t].api)
                   /\ ~IsSome(loc[t].ret)

\* a run on a UserInput profile has ended after an empty input
C30_Witness ==
    \E t \in Tasks :
        /\ RunEnded(t)
        /\ Unwrap(loc[t].profile).prompt_mode = UserInput
        /\ Called(t, "show_input_dialog", "blank")
        /\ Len(loc[t].fx) = 1

C33_CaptureBeforeDialog ==
    \A t \in Tasks :
        \A answer \in {"text", "blank", "cancel"} :
            (op[t].kind = "run" /\ Called(t, "show_input_dialog", answer))
                => loc[t].fx[1] = [ev |-> "take_interactive_screenshot", arg |-> "image"]

\* C33, amended: in a run on a UserInput profile the input dialog is the first
\* call of the run, and the capture follows it only when the dialog returned
\* a non-empty text.
C33_DialogBeforeCapture ==
    \A t \in Tasks :
        ( /\ op[t].kind = "run"
          /\ IsSome(loc[t].profile)
          /\ Unwrap(loc[t].profile).prompt_mode = UserInput
          /\ pc[t] # "input_dialog" )
            => /\ loc[t].fx # << >>
               /\ loc[t].fx[1].ev = "show_input_dialog"
               /\ Len(loc[t].fx) >= 2
                    => /\ loc[t].fx[1].arg = "text"
                       /\ loc[t].fx[2].ev = "take_interactive_screenshot"
               /\ pc[t] = "capture" => loc[t].fx = << [ev |-> "show_input_dialog", arg |-> "text"] >>

\* a run on a UserInput profile has captured the screen after the dialog
C33_Witness ==
    \E t \in Tasks :
        /\ op[t].kind = "run"
        /\ IsSome(loc[t].profile)
        /\ Unwrap(loc[t].profile).prompt_mode = UserInput
        /\ Len(loc[t].fx) >= 2
        /\ loc[t].fx[1] = [ev |-> "show_input_dialog", arg |-> "text"]
        /\ loc[t].fx[2] = [ev |-> "take_interactive_screenshot", arg |-> "image"]

\* C34: every task that has left idle returns to idle, whatever the other
\* task does, and a task about to acquire the Config lock does not hold it.
C34_RunsComplete ==
    /\ \A t \in Tasks : (pc[t] # "idle") ~> (pc[t] = "idle")
    /\ [](\A t \in Tasks :
            pc[t] \in {"txn_lock", "sw_next", "sw_read", "run_read", "an_read",
                       "an_sound", "ok_sound"}
                => lock # Some(t))

\* a run waits for the Config lock while the other task holds it
C34_Witness ==
    \E t, u \in Tasks :
        /\ op[t].kind = "run" /\ pc[t] \in {"run_read", "an_read", "an_sound", "ok_sound"}
        /\ lock = Some(u) /\ u # t

\* what the mutator of the command of task t makes of cfg, with the uuid the
\* command drew if it created a profile
Applied(t, cfg) ==
    ApplyMutator(op[t], cfg, IF IsSome(loc[t].new_id) THEN Unwrap(loc[t].new_id) ELSE 0).cfg

\* C35: the in-memory Config changes only in a step in which a task holding
\* the Config lock applies its mutator to the Config as it is at that moment;
\* and when two tasks have each completed one update whose mutator succeeded,
\* the in-memory Config is the Config the first began with, with both mutators
\* applied one after the other in one of the two orders.
C35_MutationsSerialized ==
    /\ [][mem' # mem
            => \E t \in Tasks :
                  /\ lock = Some(t) /\ pc[t] = "txn_mut"
                  /\ mem' = ApplyMutator(op[t], mem, nextId).cfg
                  /\ \A u \in Tasks \ {t} : pc[u] # "txn_mut"]_vars
    /\ []( ( /\ AllIdle /\ started = Cardinality(Tasks)
             /\ \A t \in Tasks : IsSome(loc[t].clone) )
           => \E t, u \in Tasks :
                 /\ t # u
                 /\ pre[t].mem = DefaultConfig(1)
                 /\ mem = Applied(u, Applied(t, pre[t].mem)) )

\* two updates overlapped: each began before the other had changed the
\* Config, both mutators succeeded and both effects are in memory
C35_Witness ==
    /\ AllIdle /\ started = Cardinality(Tasks)
    /\ \A t \in Tasks : IsSome(loc[t].clone) /\ pre[t].mem = DefaultConfig(1)
    /\ op[1].kind = "create" /\ op[2].kind = "update_active"
    /\ Len(mem.profiles) = 2
    /\ \E i \in 1..2 : mem.profiles[i].api_config.model = "gpt-4o"

\* C36: on a file system that does not fault, a transactional update whose
\* mutator succeeded does not return an error.
C36_SaveNeverFails ==
    \A t \in Tasks :
        (op[t].kind # "none" /\ IsSome(loc[t].clone)) => loc[t].result # "io_err"

\* C37: when k switch runs have completed without error on a Config whose
\* first profile was active, the active profile is the one k positions
\* further in cyclic order.
C37_SwitchesAdvanceByCount ==
    (AllIdle /\ ~anyErr)
        => Position(mem.profiles, Unwrap(mem.active_profile_id))
              = (started % Len(mem.profiles)) + 1

\* C38: when update_active_profile_config runs its mutator on a Config for
\* which get_active_profile returns a profile, the mutator succeeds and the
\* profile it modifies is that profile: every other profile is left as it was.
C38_UpdateTargetsEffectiveActive ==
    [][ \A t \in Tasks :
          (Mutates(t, "update_active") /\ IsSome(GetActiveProfile(mem)))
              => LET i == Position(mem.profiles, Unwrap(GetActiveProfile(mem)).id) IN
                 /\ loc'[t].result # "mut_err"
                 /\ mem' = [mem EXCEPT !.profiles[i] = ApplyProfileUpdate(@, op[t].upd)] ]_vars

\* C39: while update_config saves, the in-memory Config is the one the command
\* found; if the save fails it stays so and the canonical file is the one the
\* command found; when the command has succeeded the in-memory Config and the
\* canonical file both hold the supplied Config.
C39_UpdateConfigSavesFirst ==
    \A t \in Tasks :
        op[t].kind = "update_config"
            => /\ pc[t] \in {"save_open", "save_data", "save_rename", "uc_store"}
                    => mem = pre[t].mem
               /\ pc[t] = "uc_store" => disk = Serialize(Unwrap(op[t].cfg))
               /\ (pc[t] = "idle" /\ loc[t].result = "io_err")
                    => mem = pre[t].mem /\ disk = pre[t].disk
               /\ (pc[t] = "idle" /\ loc[t].result = "ok")
                    => /\ mem = Unwrap(op[t].cfg)
                       /\ disk = Serialize(Unwrap(op[t].cfg))
               /\ pc[t] = "idle" => loc[t].result \in {"io_err", "ok"}

\* update_config has failed in its save on a store whose Config differs from
\* the supplied one
C39_Witness ==
    \E t \in Tasks :
        /\ op[t].kind = "update_config" /\ pc[t] = "idle"
        /\ loc[t].result = "io_err"
        /\ mem # Unwrap(op[t].cfg)
        /\ disk # Absent

\* C32: after every start of the application the in-memory Config is the one
\* config.json holds, or the default Config (one profile, which is active)
\* when config.json is missing or does not parse, and the model list is the
\* one models.json holds, or empty when models.json is missing or does not
\* parse.
C32_StartupNeverFails ==
    (started = 0 \/ op[1].kind = "restart")
        => /\ disk.kind = "json" => mem = disk.cfg
           /\ disk.kind # "json"
                => /\ Len(mem.profiles) = 1
                   /\ mem.active_profile_id = Some(mem.profiles[1].id)
                   /\ mem = DefaultConfig(mem.profiles[1].id)
           /\ cache.kind = "json" => loaded_models = cache.models
           /\ cache.kind # "json" => loaded_models = << >>

\* the application has been started again on a config.json and a models.json
\* that do not parse
C32_Witness ==
    /\ op[1].kind = "restart"
    /\ disk = Partial /\ cache = Partial
    /\ Len(mem.profiles) = 1
    /\ loaded_models = << >>

\* C40: when update_hotkeys has returned an error the hotkeys of the
\* in-memory Config, the canonical file and the registered shortcuts are as
\* they were when the command began.
C40_FailedHotkeyUpdateChangesNothing ==
    \A t \in Tasks :
        ( /\ op[t].kind = "update_hotkeys" /\ pc[t] = "idle"
          /\ loc[t].result \in {"register_err", "io_err", "mut_err"} )
            => /\ mem.global_hotkey = pre[t].mem.global_hotkey
               /\ mem.switch_profile_hotkey = pre[t].mem.switch_profile_hotkey
               /\ disk = pre[t].disk
               /\ shortcuts = pre[t].shortcuts

====
